---- MODULE Spec2Model ----
(***************************************************************************)
(* Halfedge mesh of lwmesh: Topology (vconn_, hconn_, fconn_), the row     *)
(* counts of the four property containers, and the public mutators         *)
(* Mesh::add_vertex and Mesh::add_face.  Handles are their indices; the    *)
(* vectors are functions over 0..len-1, as the code indexes them.          *)
(***************************************************************************)
EXTENDS Integers, Sequences, FiniteSets, TLC

\* ------------------------------------------------------------------ bounds
\* most vertices / faces a mesh grows to, longest face given to add_face
MaxV == 4
MaxF == 2
MaxN == 4
\* the hub scenario: vertex 0 with rim vertices 1..HubRim, at most HubF faces
HubRim == 6
HubF == 4
\* the property scenario: at most PropV vertices and PropF faces, add_vertices
\* of at most MaxNb vertices, at most MaxP properties over the four kinds and
\* at most MaxWrites rows that differ from their default
PropV == 3
PropF == 1
MaxNb == 2
MaxP == 2
MaxWrites == 1
\* calls of next made after an iterator has returned None
ExtraCalls == 2
\* the reserve scenario: vertices, faces, and the largest size reserved
ResV == 4
ResF == 2
MaxReserve == 5
\* the largest index given to a handle
MaxIdx == 4

\* Option::None (vertex halfedge, halfedge face, find_halfedge result)
None == -1
\* BaseHandle::invalid(), the value of a connectivity field not yet set
invalid == -1
\* outcome of a call that trips an assert! / unwrap
Panic == -2

\* topology, properties: the Mesh; capacity: the capacity of its three
\* connectivity vectors (the least its operations guarantee); handles: two
\* handles a client holds; call, ret: the last call made and what it
\* returned
VARIABLES topology, properties, capacity, handles, call, ret

vars == <<topology, properties, capacity, handles, call, ret>>

Max(a, b) == IF a < b THEN b ELSE a

\* ------------------------------------------------------------- BaseHandle
\* Option<usize>
Option_None == <<>>
Option_Some(x) == <<x>>

\* std::cmp::Ordering
Less == -1
Equal == 0
Greater == 1

\* Option<usize>::cmp: None below every Some, Some by the integers
Option_cmp(a, b) ==
    IF a = Option_None THEN (IF b = Option_None THEN Equal ELSE Less)
    ELSE IF b = Option_None THEN Greater
    ELSE IF a[1] < b[1] THEN Less
    ELSE IF a[1] = b[1] THEN Equal
    ELSE Greater

BaseHandle_invalid == [index_ |-> Option_None]

BaseHandle_new(idx) == [index_ |-> Option_Some(idx)]

BaseHandle_idx(h) == h.index_

\* reset that leaves the handle as it is
BaseHandle_reset_keep(h) == h

BaseHandle_reset(h) == [h EXCEPT !.index_ = Option_None]

BaseHandle_is_valid(h) == h.index_ # Option_None

\* cmp with the two handles exchanged
BaseHandle_cmp_reversed(a, b) == Option_cmp(b.index_, a.index_)

BaseHandle_cmp(a, b) == Option_cmp(a.index_, b.index_)

BaseHandle_partial_cmp(a, b) == Option_Some(Option_cmp(a.index_, b.index_))

BaseHandle_eq(a, b) == a.index_ = b.index_

\* ------------------------------------------------------------ PropertyVec
PropertyVec_len(vec) == Cardinality(DOMAIN vec)

PropertyVec_push(vec, default) ==
    LET n == PropertyVec_len(vec)
    IN  [i \in 0..n |-> IF i < n THEN vec[i] ELSE default]

\* PropertyVec::reserve: capacity only, the rows stay as they are
PropertyVec_reserve(vec, size) == vec

\* The capacity of a vector is modelled by the least capacity its contract
\* allows: how much a vector grows beyond what it is asked for is left open,
\* and every capacity it may really have is at least this one.
\* After one push on a vector of len rows: as it was while there is room,
\* room for the new row when there is none
PropertyVec_push_capacity(cap, len) == Max(cap, len + 1)

\* the capacity after k pushes
RECURSIVE PropertyVec_pushes_capacity(_, _, _)
PropertyVec_pushes_capacity(cap, len, k) ==
    IF k = 0 THEN cap
    ELSE PropertyVec_pushes_capacity(PropertyVec_push_capacity(cap, len),
                                     len + 1, k - 1)

\* after reserve(size): room for size rows, and never less than before
PropertyVec_reserve_capacity(cap, size) == Max(cap, size)

\* ------------------------------------------------------ PropertyContainer
\* one container per entity kind: size_ rows in each of the properties of
\* parrays_; a property is its name, the element type it was added with, its
\* default value and its rows; a property handle is the slot in parrays_
PropertyContainer_new == [size_ |-> 0, parrays_ |-> <<>>]

PropertyContainer_slots(c) == DOMAIN c.parrays_

\* PropertyContainer::push: one more default row in every property
PropertyContainer_push(c) ==
    [size_ |-> c.size_ + 1,
     parrays_ |-> [s \in DOMAIN c.parrays_ |->
                     [c.parrays_[s] EXCEPT
                        !.data = PropertyVec_push(@, c.parrays_[s].default)]]]

\* PropertyContainer::reserve: forwarded to every property
PropertyContainer_reserve(c, size) ==
    [c EXCEPT !.parrays_ =
        [s \in DOMAIN c.parrays_ |->
            [c.parrays_[s] EXCEPT !.data = PropertyVec_reserve(@, size)]]]

\* PropertyContainer::add::<D>(name, default): None when the name is taken,
\* else a new property of size_ default rows and its slot
PropertyContainer_add(c, name, type, default) ==
    IF \E s \in DOMAIN c.parrays_ : c.parrays_[s].name = name
    THEN [ret |-> None, container |-> c]
    ELSE [ret |-> PropertyVec_len(c.parrays_),
          container |->
            [c EXCEPT !.parrays_ = PropertyVec_push(@,
                [name |-> name, type |-> type, default |-> default,
                 data |-> [r \in 0..(c.size_ - 1) |-> default]])]]

\* PropertyContainer::get::<D>(name): the slot of the property with that
\* name when its element type is D
PropertyContainer_get(c, name, type) ==
    LET found == {s \in DOMAIN c.parrays_ :
                    c.parrays_[s].name = name /\ c.parrays_[s].type = type}
    IN  IF found = {} THEN None ELSE CHOOSE s \in found : TRUE

\* container[(p, h)] read and written; Panic past the rows or the slots
PropertyContainer_index(c, p, h) ==
    IF p \in DOMAIN c.parrays_ /\ h \in DOMAIN c.parrays_[p].data
    THEN c.parrays_[p].data[h] ELSE Panic

PropertyContainer_index_mut(c, p, h, value) ==
    [c EXCEPT !.parrays_ = [@ EXCEPT ![p] = [@ EXCEPT !.data =
                                [@ EXCEPT ![h] = value]]]]

\* ----------------------------------------------------------- connectivity
VertexConnectivity_new == [halfedge_ |-> None]

HalfedgeConnectivity_new ==
    [vertex_ |-> invalid, face_ |-> None,
     next_halfedge_ |-> invalid, prev_halfedge_ |-> invalid]

FaceConnectivity_new == [halfedge_ |-> invalid]

Topology_new ==
    [vconn_ |-> <<>>, hconn_ |-> <<>>, fconn_ |-> <<>>]

Properties_new ==
    [vprop_ |-> PropertyContainer_new, hprop_ |-> PropertyContainer_new,
     eprop_ |-> PropertyContainer_new, fprop_ |-> PropertyContainer_new]

\* ------------------------------------------------------------- Properties
\* add_vertex_property looking the name up among the face properties
add_vertex_property_in_fprop(p, name, type, default) ==
    LET r == PropertyContainer_add(p.fprop_, name, type, default)
    IN  [ret |-> r.ret, properties |-> [p EXCEPT !.fprop_ = r.container]]

\* Properties::add_*_property::<D>(name, default_value): the handle or None,
\* and the properties afterwards
add_vertex_property(p, name, type, default) ==
    LET r == PropertyContainer_add(p.vprop_, name, type, default)
    IN  [ret |-> r.ret, properties |-> [p EXCEPT !.vprop_ = r.container]]

\* add_face_property registering the name among the vertex properties
add_face_property_in_vprop(p, name, type, default) ==
    LET r == PropertyContainer_add(p.vprop_, name, type, default)
    IN  [ret |-> r.ret, properties |-> [p EXCEPT !.vprop_ = r.container]]

add_face_property(p, name, type, default) ==
    LET r == PropertyContainer_add(p.fprop_, name, type, default)
    IN  [ret |-> r.ret, properties |-> [p EXCEPT !.fprop_ = r.container]]

add_edge_property(p, name, type, default) ==
    LET r == PropertyContainer_add(p.eprop_, name, type, default)
    IN  [ret |-> r.ret, properties |-> [p EXCEPT !.eprop_ = r.container]]

add_halfedge_property(p, name, type, default) ==
    LET r == PropertyContainer_add(p.hprop_, name, type, default)
    IN  [ret |-> r.ret, properties |-> [p EXCEPT !.hprop_ = r.container]]

\* get_vertex_property looking the name up among the face properties
get_vertex_property_in_fprop(p, name, type) ==
    PropertyContainer_get(p.fprop_, name, type)

\* Properties::get_*_property::<D>(name): the handle or None
get_vertex_property(p, name, type) ==
    PropertyContainer_get(p.vprop_, name, type)

get_face_property(p, name, type) ==
    PropertyContainer_get(p.fprop_, name, type)

get_edge_property(p, name, type) ==
    PropertyContainer_get(p.eprop_, name, type)

get_halfedge_property(p, name, type) ==
    PropertyContainer_get(p.hprop_, name, type)

\* the four entity kinds, named by their container
Kinds == {"vprop_", "hprop_", "eprop_", "fprop_"}

add_property(p, kind, name, type, default) ==
    CASE kind = "vprop_" -> add_vertex_property(p, name, type, default)
      [] kind = "fprop_" -> add_face_property(p, name, type, default)
      [] kind = "eprop_" -> add_edge_property(p, name, type, default)
      [] kind = "hprop_" -> add_halfedge_property(p, name, type, default)

get_property(p, kind, name, type) ==
    CASE kind = "vprop_" -> get_vertex_property(p, name, type)
      [] kind = "fprop_" -> get_face_property(p, name, type)
      [] kind = "eprop_" -> get_edge_property(p, name, type)
      [] kind = "hprop_" -> get_halfedge_property(p, name, type)

\* properties[(prop, handle)], read and written, for the four kinds
Properties_index(p, kind, prop, h) ==
    PropertyContainer_index(p[kind], prop, h)

\* the write forwarded to the vertex container whatever the kind
Properties_index_mut_vprop(p, kind, prop, h, value) ==
    [p EXCEPT !.vprop_ = PropertyContainer_index_mut(@, prop, h, value)]

Properties_index_mut(p, kind, prop, h, value) ==
    [p EXCEPT ![kind] = PropertyContainer_index_mut(@, prop, h, value)]

\* ---------------------------------------------------- Topology: read ops
n_vertices(t) == PropertyVec_len(t.vconn_)
n_faces(t) == PropertyVec_len(t.fconn_)
n_edges(t) == PropertyVec_len(t.hconn_) \div 2
n_halfedges(t) == PropertyVec_len(t.hconn_)

Vertices(t) == DOMAIN t.vconn_
Halfedges(t) == DOMAIN t.hconn_
Faces(t) == DOMAIN t.fconn_
Edges(t) == 0..(n_edges(t) - 1)

face(t, h) == t.hconn_[h].face_
halfedge(t, v) == t.vconn_[v].halfedge_
face_halfedge(t, f) == t.fconn_[f].halfedge_
edge(h) == h \div 2
edge_halfedge(e, i) == e * 2 + i
to_vertex(t, h) == t.hconn_[h].vertex_
next_halfedge(t, h) == t.hconn_[h].next_halfedge_
prev_halfedge(t, h) == t.hconn_[h].prev_halfedge_
from_vertex(t, h) == to_vertex(t, prev_halfedge(t, h))

\* opposite_halfedge with the idx+1 branch dropped
opposite_halfedge_even(h) == IF h % 2 = 1 THEN h - 1 ELSE h

opposite_halfedge(h) == IF h % 2 = 1 THEN h - 1 ELSE h + 1

cw_rotated_halfedge(t, h) == next_halfedge(t, opposite_halfedge(h))

is_boundary_halfedge(t, h) == face(t, h) = None

\* is_boundary_vertex that never looks at the face of the outgoing halfedge
is_boundary_vertex_any(t, v) ==
    LET o == halfedge(t, v)
    IN  IF o # None THEN TRUE ELSE TRUE

is_boundary_vertex(t, v) ==
    LET o == halfedge(t, v)
    IN  IF o # None THEN face(t, o) = None ELSE TRUE

is_boundary_edge(t, e) ==
    face(t, edge_halfedge(e, 0)) = None \/ face(t, edge_halfedge(e, 1)) = None

RECURSIVE find_halfedge_loop(_, _, _, _)
find_halfedge_loop(t, h, h_end, end) ==
    IF to_vertex(t, h) = end THEN h
    ELSE LET h2 == cw_rotated_halfedge(t, h)
         IN  IF h2 = h_end THEN None
             ELSE find_halfedge_loop(t, h2, h_end, end)

\* find_halfedge that looks at halfedge(start) only, without the cw walk
find_halfedge_first(t, start, end) ==
    IF halfedge(t, start) = None THEN None
    ELSE IF to_vertex(t, halfedge(t, start)) = end THEN halfedge(t, start)
    ELSE None

find_halfedge(t, start, end) ==
    IF halfedge(t, start) = None THEN None
    ELSE find_halfedge_loop(t, halfedge(t, start), halfedge(t, start), end)

\* ---------------------------------------------------- Topology: mutators
\* set_halfedge that writes the halfedge of the vertex h points to
set_halfedge_of_to_vertex(t, v, h) ==
    [t EXCEPT !.vconn_ =
        [@ EXCEPT ![to_vertex(t, h)] = [@ EXCEPT !.halfedge_ = h]]]

set_halfedge(t, v, h) ==
    [t EXCEPT !.vconn_ = [@ EXCEPT ![v] = [@ EXCEPT !.halfedge_ = h]]]

\* set_face that writes the face of the opposite halfedge
set_face_to_opposite(t, h, f) ==
    [t EXCEPT !.hconn_[opposite_halfedge(h)].face_ = f]

set_face(t, h, f) ==
    [t EXCEPT !.hconn_ = [@ EXCEPT ![h] = [@ EXCEPT !.face_ = f]]]

\* set_vertex that writes the vertex of the halfedge two rows below h
set_vertex_two_below(t, h, v) ==
    [t EXCEPT !.hconn_ =
        [@ EXCEPT ![IF h >= 2 THEN h - 2 ELSE h] = [@ EXCEPT !.vertex_ = v]]]

set_vertex(t, h, v) ==
    [t EXCEPT !.hconn_ = [@ EXCEPT ![h] = [@ EXCEPT !.vertex_ = v]]]

\* set_next_halfedge that leaves prev(nh) alone
set_next_halfedge_only(t, h, nh) ==
    [t EXCEPT !.hconn_ = [@ EXCEPT ![h] = [@ EXCEPT !.next_halfedge_ = nh]]]

set_next_halfedge(t, h, nh) ==
    LET t1 == [t EXCEPT !.hconn_ =
                  [@ EXCEPT ![h] = [@ EXCEPT !.next_halfedge_ = nh]]]
    IN  [t1 EXCEPT !.hconn_ =
                  [@ EXCEPT ![nh] = [@ EXCEPT !.prev_halfedge_ = h]]]

RECURSIVE adjust_outgoing_halfedge_loop(_, _, _, _)
adjust_outgoing_halfedge_loop(t, v, h, hh) ==
    IF is_boundary_halfedge(t, h) THEN set_halfedge(t, v, h)
    ELSE LET h2 == cw_rotated_halfedge(t, h)
         IN  IF h2 = hh THEN t
             ELSE adjust_outgoing_halfedge_loop(t, v, h2, hh)

adjust_outgoing_halfedge(t, v) ==
    IF halfedge(t, v) = None THEN t
    ELSE adjust_outgoing_halfedge_loop(t, v, halfedge(t, v), halfedge(t, v))

\* ------------------------------------------------------------------- Mesh
\* a mesh value: the two fields of struct Mesh
Mesh_new == [topology |-> Topology_new, properties |-> Properties_new]

\* add_vertex returning Vertex::new(vconn_.len()) instead of len() - 1
add_vertex_len(m) ==
    [ret |-> n_vertices(m.topology) + 1,
     topology |-> [m.topology EXCEPT
                     !.vconn_ = PropertyVec_push(@, VertexConnectivity_new)],
     properties |-> [m.properties EXCEPT
                     !.vprop_ = PropertyContainer_push(@)]]

add_vertex(m) ==
    [ret |-> n_vertices(m.topology),
     topology |-> [m.topology EXCEPT
                     !.vconn_ = PropertyVec_push(@, VertexConnectivity_new)],
     properties |-> [m.properties EXCEPT
                     !.vprop_ = PropertyContainer_push(@)]]

\* Mesh::vertex_reserve(size)
vertex_reserve(m, size) ==
    [topology |-> [m.topology EXCEPT
                     !.vconn_ = PropertyVec_reserve(@, size)],
     properties |-> [m.properties EXCEPT
                     !.vprop_ = PropertyContainer_reserve(@, size)]]

\* the loop of add_vertices pushing the index after the push, len, not len-1
RECURSIVE add_vertices_loop_len(_, _, _)
add_vertices_loop_len(m, vec, k) ==
    IF k = 0 THEN [ret |-> vec, topology |-> m.topology,
                   properties |-> m.properties]
    ELSE LET m1 == [properties |->
                      [m.properties EXCEPT
                         !.vprop_ = PropertyContainer_push(@)],
                    topology |->
                      [m.topology EXCEPT
                         !.vconn_ = PropertyVec_push(@, VertexConnectivity_new)]]
         IN  add_vertices_loop_len(m1, Append(vec, n_vertices(m1.topology)),
                                   k - 1)

\* add_vertices, "for _ in 0..nb": k pushes still to do
RECURSIVE add_vertices_loop(_, _, _)
add_vertices_loop(m, vec, k) ==
    IF k = 0 THEN [ret |-> vec, topology |-> m.topology,
                   properties |-> m.properties]
    ELSE LET m1 == [properties |->
                      [m.properties EXCEPT
                         !.vprop_ = PropertyContainer_push(@)],
                    topology |->
                      [m.topology EXCEPT
                         !.vconn_ = PropertyVec_push(@, VertexConnectivity_new)]]
         IN  add_vertices_loop(m1, Append(vec, n_vertices(m1.topology) - 1),
                               k - 1)

\* Mesh::face_reserve(size)
face_reserve(m, size) ==
    [topology |-> [m.topology EXCEPT
                     !.fconn_ = PropertyVec_reserve(@, size)],
     properties |-> [m.properties EXCEPT
                     !.fprop_ = PropertyContainer_reserve(@, size)]]

\* Mesh::edge_reserve(size)
edge_reserve(m, size) ==
    [topology |-> [m.topology EXCEPT
                     !.hconn_ = PropertyVec_reserve(@, size * 2)],
     properties |-> [m.properties EXCEPT
                     !.eprop_ = PropertyContainer_reserve(@, size),
                     !.hprop_ = PropertyContainer_reserve(@, size * 2)]]

\* the capacities of vconn_, hconn_, fconn_ of a new Mesh
Capacity_new == [vconn_ |-> 0, hconn_ |-> 0, fconn_ |-> 0]

vertex_capacity(c) == c.vconn_

face_capacity(c) == c.fconn_

edge_capacity(c) == c.hconn_ \div 2

\* the capacities vertex_reserve(size) leaves
vertex_reserve_capacity(c, size) ==
    [c EXCEPT !.vconn_ = PropertyVec_reserve_capacity(@, size)]

face_reserve_capacity(c, size) ==
    [c EXCEPT !.fconn_ = PropertyVec_reserve_capacity(@, size)]

\* edge_reserve that reserves size halfedge rows, not size * 2
edge_reserve_capacity_single(c, size) ==
    [c EXCEPT !.hconn_ = PropertyVec_reserve_capacity(@, size)]

edge_reserve_capacity(c, size) ==
    [c EXCEPT !.hconn_ = PropertyVec_reserve_capacity(@, size * 2)]

\* the capacities after the pushes that lead from topology t0 to t1
pushed_capacity(c, t0, t1) ==
    [vconn_ |-> PropertyVec_pushes_capacity(c.vconn_, n_vertices(t0),
                    n_vertices(t1) - n_vertices(t0)),
     hconn_ |-> PropertyVec_pushes_capacity(c.hconn_, n_halfedges(t0),
                    n_halfedges(t1) - n_halfedges(t0)),
     fconn_ |-> PropertyVec_pushes_capacity(c.fconn_, n_faces(t0),
                    n_faces(t1) - n_faces(t0))]

\* the capacities add_vertices(nb) leaves: vertex_reserve if
\* vertex_capacity() is below n_vertices + nb, then nb pushes
add_vertices_capacity(c, t, nb) ==
    LET c1 == IF vertex_capacity(c) < n_vertices(t) + nb
              THEN vertex_reserve_capacity(c, n_vertices(t) + nb)
              ELSE c
    IN  [c1 EXCEPT !.vconn_ = PropertyVec_pushes_capacity(@, n_vertices(t),
                                                          nb)]

\* Mesh::add_vertices(nb): the Vec<Vertex> returned and the mesh afterwards.
\* The reserve is made or not as vertex_capacity() says; the rows are the
\* same either way
add_vertices(m, nb) ==
    add_vertices_loop(vertex_reserve(m, n_vertices(m.topology) + nb),
                      <<>>, nb)

\* new_edge with the two target vertices exchanged
new_edge_swapped(m, start, end) ==
    IF start = end THEN [ret |-> Panic, topology |-> m.topology,
                         properties |-> m.properties]
    ELSE
    LET t1 == [m.topology EXCEPT
                 !.hconn_ = PropertyVec_push(
                                PropertyVec_push(@, HalfedgeConnectivity_new),
                                HalfedgeConnectivity_new)]
        h1 == n_halfedges(t1) - 1
        h0 == h1 - 1
    IN  [ret |-> h0,
         topology |-> set_vertex(set_vertex(t1, h0, start), h1, end),
         properties |-> [m.properties EXCEPT
                 !.eprop_ = PropertyContainer_push(@),
                 !.hprop_ = PropertyContainer_push(PropertyContainer_push(@))]]

\* new_edge(start, end): the mesh afterwards and the halfedge start -> end;
\* the assert!(start != end) fails before anything is pushed
new_edge(m, start, end) ==
    IF start = end THEN [ret |-> Panic, topology |-> m.topology,
                         properties |-> m.properties]
    ELSE
    LET p1 == [m.properties EXCEPT
                 !.eprop_ = PropertyContainer_push(@),
                 !.hprop_ = PropertyContainer_push(PropertyContainer_push(@))]
        t0 == [m.topology EXCEPT
                 !.hconn_ = PropertyVec_push(@, HalfedgeConnectivity_new)]
        h0 == n_halfedges(t0) - 1
        t1 == [t0 EXCEPT
                 !.hconn_ = PropertyVec_push(@, HalfedgeConnectivity_new)]
        h1 == n_halfedges(t1) - 1
    IN  [ret |-> h0,
         topology |-> set_vertex(set_vertex(t1, h0, end), h1, start),
         properties |-> p1]

\* vertices[i] of the Vec<Vertex> handed to add_face (0-based)
At(vertices, i) == vertices[i + 1]

\* the first loop without its test of the halfedge that was found
RECURSIVE add_face_valid_vertices_only(_, _, _)
add_face_valid_vertices_only(t, vertices, i) ==
    IF i = Len(vertices) THEN i
    ELSE IF ~is_boundary_vertex(t, At(vertices, i)) THEN i
    ELSE add_face_valid_vertices_only(t, vertices, i + 1)

\* add_face, first loop: "Does the face to add is valid".
\* The index of the first corner that is rejected, or n when all pass.
RECURSIVE add_face_valid_from(_, _, _)
add_face_valid_from(t, vertices, i) ==
    LET n == Len(vertices)
    IN  IF i = n THEN n
        ELSE IF ~is_boundary_vertex(t, At(vertices, i)) THEN i
        ELSE LET h == find_halfedge(t, At(vertices, i),
                                       At(vertices, (i + 1) % n))
             IN  IF h # None /\ ~is_boundary_halfedge(t, h) THEN i
                 ELSE add_face_valid_from(t, vertices, i + 1)

\* hvec after the first loop
add_face_hvec(t, vertices) ==
    LET n == Len(vertices)
    IN  [i \in 0..(n - 1) |->
            find_halfedge(t, At(vertices, i), At(vertices, (i + 1) % n))]

\* the walk of the pre-pass taking its first step only
add_face_boundary_prev_once(t, boundary_prev, inner_prev) ==
    opposite_halfedge(next_halfedge(t, boundary_prev))

\* add_face, pre-pass: the walk "boundary_prev = opposite(next(boundary_prev))"
\* until a boundary halfedge other than inner_prev is found
RECURSIVE add_face_boundary_prev(_, _, _)
add_face_boundary_prev(t, boundary_prev, inner_prev) ==
    LET bp == opposite_halfedge(next_halfedge(t, boundary_prev))
    IN  IF is_boundary_halfedge(t, bp) /\ bp # inner_prev THEN bp
        ELSE add_face_boundary_prev(t, bp, inner_prev)

\* the second loop with its return outside the dead-end test: None at every
\* corner whose two halfedges are not consecutive
RECURSIVE add_face_relink_always_none(_, _, _, _)
add_face_relink_always_none(t, hvec, i, next_cache) ==
    LET n == PropertyVec_len(hvec)
        ii == (i + 1) % n
    IN  IF i = n THEN [status |-> "ok", next_cache |-> next_cache]
        ELSE IF hvec[i] # None /\ hvec[ii] # None
                /\ next_halfedge(t, hvec[i]) # hvec[ii]
        THEN LET inner_prev == hvec[i]
                 inner_next == hvec[ii]
                 outer_prev == opposite_halfedge(inner_next)
                 boundary_prev ==
                     add_face_boundary_prev(t, outer_prev, inner_prev)
                 boundary_next == next_halfedge(t, boundary_prev)
             IN  IF ~is_boundary_halfedge(t, boundary_next)
                 THEN [status |-> "panic", next_cache |-> next_cache]
                 ELSE [status |-> "none", next_cache |-> next_cache]
        ELSE add_face_relink_always_none(t, hvec, i + 1, next_cache)

\* add_face, second loop: "re-link patches if necessary".
\* status "ok" with the queued re-links, "none" at a dead end, "panic" when
\* one of the two asserts on boundary_prev and boundary_next fails
RECURSIVE add_face_relink(_, _, _, _)
add_face_relink(t, hvec, i, next_cache) ==
    LET n == PropertyVec_len(hvec)
        ii == (i + 1) % n
    IN  IF i = n THEN [status |-> "ok", next_cache |-> next_cache]
        ELSE IF hvec[i] # None /\ hvec[ii] # None
                /\ next_halfedge(t, hvec[i]) # hvec[ii]
        THEN LET inner_prev == hvec[i]
                 inner_next == hvec[ii]
                 outer_prev == opposite_halfedge(inner_next)
                 boundary_prev ==
                     add_face_boundary_prev(t, outer_prev, inner_prev)
                 boundary_next == next_halfedge(t, boundary_prev)
                 patch_start == next_halfedge(t, inner_prev)
                 patch_end == prev_halfedge(t, inner_next)
             IN  IF ~is_boundary_halfedge(t, boundary_prev)
                    \/ ~is_boundary_halfedge(t, boundary_next)
                 THEN [status |-> "panic", next_cache |-> next_cache]
                 ELSE IF boundary_next = inner_next
                 THEN [status |-> "none", next_cache |-> next_cache]
                 ELSE add_face_relink(t, hvec, i + 1,
                        next_cache \o << <<boundary_prev, patch_start>>,
                                         <<patch_end, boundary_next>>,
                                         <<inner_prev, inner_next>> >>)
        ELSE add_face_relink(t, hvec, i + 1, next_cache)

\* add_face, third loop: "Create missing edges".
\* s = [i, panic, topology, properties, hvec], the locals while the loop runs
RECURSIVE add_face_create_edges(_, _, _)
add_face_create_edges(vertices, new_hvec, s) ==
    LET n == Len(vertices)
        i == s.i
    IN  IF i = n \/ s.panic THEN s
        ELSE IF new_hvec[i]
        THEN LET r == new_edge([topology |-> s.topology,
                                properties |-> s.properties],
                               At(vertices, i), At(vertices, (i + 1) % n))
             IN  add_face_create_edges(vertices, new_hvec,
                    [i |-> i + 1, panic |-> r.ret = Panic,
                     topology |-> r.topology, properties |-> r.properties,
                     hvec |-> [s.hvec EXCEPT ![i] = r.ret]])
        ELSE add_face_create_edges(vertices, new_hvec, [s EXCEPT !.i = i + 1])

\* the new face with hvec[0] as its halfedge
add_face_new_face_first(t, hvec) ==
    LET t1 == [t EXCEPT !.fconn_ = PropertyVec_push(@, FaceConnectivity_new)]
        f == n_faces(t1) - 1
    IN  [t1 EXCEPT !.fconn_ = [@ EXCEPT ![f] = [halfedge_ |-> hvec[0]]]]

\* add_face, "Creates the new face": the face row and its halfedge hvec[n-1]
add_face_new_face(t, hvec) ==
    LET n == PropertyVec_len(hvec)
        t1 == [t EXCEPT !.fconn_ = PropertyVec_push(@, FaceConnectivity_new)]
        f == n_faces(t1) - 1
    IN  [t1 EXCEPT !.fconn_ = [@ EXCEPT ![f] = [halfedge_ |-> hvec[n - 1]]]]

\* one corner of the fourth loop queueing boundary_prev twice where both
\* halfedges are new and the vertex has a halfedge already
add_face_setup_corner_twice(vertices, hvec, new_hvec, f, i, s) ==
    LET n == Len(vertices)
        ii == (i + 1) % n
        v == At(vertices, ii)
        t == s.topology
        inner_prev == hvec[i]
        inner_next == hvec[ii]
        outer_prev == opposite_halfedge(inner_next)
        outer_next == opposite_halfedge(inner_prev)
        s1 ==
          IF new_hvec[i] \/ new_hvec[ii]
          THEN LET s0 ==
                 IF ~new_hvec[ii]
                 THEN LET boundary_prev == prev_halfedge(t, inner_next)
                      IN  [s EXCEPT
                            !.next_cache =
                                Append(@, <<boundary_prev, outer_next>>),
                            !.topology = set_halfedge(t, v, outer_next)]
                 ELSE IF ~new_hvec[i]
                 THEN LET boundary_next == next_halfedge(t, inner_prev)
                      IN  [s EXCEPT
                            !.next_cache =
                                Append(@, <<outer_prev, boundary_next>>),
                            !.topology = set_halfedge(t, v, boundary_next)]
                 ELSE IF halfedge(t, v) = None
                 THEN [s EXCEPT
                         !.topology = set_halfedge(t, v, outer_next),
                         !.next_cache = Append(@, <<outer_prev, outer_next>>)]
                 ELSE LET h == halfedge(t, v)
                          boundary_prev == prev_halfedge(t, h)
                      IN  [s EXCEPT
                            !.next_cache =
                                Append(Append(@, <<boundary_prev, outer_next>>),
                                       <<boundary_prev, h>>)]
               IN  [s0 EXCEPT
                      !.next_cache = Append(@, <<inner_prev, inner_next>>)]
          ELSE [s EXCEPT
                  !.needs_adjust = [@ EXCEPT ![ii] = halfedge(t, v) = inner_next]]
    IN  [s1 EXCEPT !.topology = set_face(s1.topology, inner_prev, f)]

\* add_face, fourth loop: "Setup halfedges", one corner.
\* s = [topology, next_cache, needs_adjust]
add_face_setup_corner(vertices, hvec, new_hvec, f, i, s) ==
    LET n == Len(vertices)
        ii == (i + 1) % n
        v == At(vertices, ii)
        t == s.topology
        inner_prev == hvec[i]
        inner_next == hvec[ii]
        outer_prev == opposite_halfedge(inner_next)
        outer_next == opposite_halfedge(inner_prev)
        s1 ==
          IF new_hvec[i] \/ new_hvec[ii]
          THEN LET s0 ==
                 IF ~new_hvec[ii]
                 THEN LET boundary_prev == prev_halfedge(t, inner_next)
                      IN  [s EXCEPT
                            !.next_cache =
                                Append(@, <<boundary_prev, outer_next>>),
                            !.topology = set_halfedge(t, v, outer_next)]
                 ELSE IF ~new_hvec[i]
                 THEN LET boundary_next == next_halfedge(t, inner_prev)
                      IN  [s EXCEPT
                            !.next_cache =
                                Append(@, <<outer_prev, boundary_next>>),
                            !.topology = set_halfedge(t, v, boundary_next)]
                 ELSE IF halfedge(t, v) = None
                 THEN [s EXCEPT
                         !.topology = set_halfedge(t, v, outer_next),
                         !.next_cache = Append(@, <<outer_prev, outer_next>>)]
                 ELSE LET h == halfedge(t, v)
                          boundary_prev == prev_halfedge(t, h)
                      IN  [s EXCEPT
                            !.next_cache =
                                Append(Append(@, <<boundary_prev, outer_next>>),
                                       <<outer_prev, h>>)]
               IN  [s0 EXCEPT
                      !.next_cache = Append(@, <<inner_prev, inner_next>>)]
          ELSE [s EXCEPT
                  !.needs_adjust = [@ EXCEPT ![ii] = halfedge(t, v) = inner_next]]
    IN  [s1 EXCEPT !.topology = set_face(s1.topology, inner_prev, f)]

\* the fourth loop stopping one corner short
RECURSIVE add_face_setup_short(_, _, _, _, _, _)
add_face_setup_short(vertices, hvec, new_hvec, f, i, s) ==
    IF i >= Len(vertices) - 1 THEN s
    ELSE add_face_setup_short(vertices, hvec, new_hvec, f, i + 1,
            add_face_setup_corner(vertices, hvec, new_hvec, f, i, s))

RECURSIVE add_face_setup(_, _, _, _, _, _)
add_face_setup(vertices, hvec, new_hvec, f, i, s) ==
    IF i = Len(vertices) THEN s
    ELSE add_face_setup(vertices, hvec, new_hvec, f, i + 1,
            add_face_setup_corner(vertices, hvec, new_hvec, f, i, s))

\* the queue applied without its last pair
RECURSIVE add_face_process_cache_short(_, _)
add_face_process_cache_short(t, next_cache) ==
    IF Len(next_cache) <= 1 THEN t
    ELSE add_face_process_cache_short(
            set_next_halfedge(t, Head(next_cache)[1], Head(next_cache)[2]),
            Tail(next_cache))

\* add_face, "process cache": set_next_halfedge on the queue, in order
RECURSIVE add_face_process_cache(_, _)
add_face_process_cache(t, next_cache) ==
    IF next_cache = <<>> THEN t
    ELSE add_face_process_cache(
            set_next_halfedge(t, Head(next_cache)[1], Head(next_cache)[2]),
            Tail(next_cache))

\* add_face, last loop: "adjust vertices halfedge handle"
RECURSIVE add_face_adjust(_, _, _, _)
add_face_adjust(t, vertices, needs_adjust, i) ==
    IF i = Len(vertices) THEN t
    ELSE add_face_adjust(
            IF needs_adjust[i]
            THEN adjust_outgoing_halfedge(t, At(vertices, i)) ELSE t,
            vertices, needs_adjust, i + 1)

\* add_face_build without the push of the face property rows
add_face_build_no_fprop(m, vertices, hvec, next_cache) ==
    LET n == Len(vertices)
        new_hvec == [i \in 0..(n - 1) |-> hvec[i] = None]
        e == add_face_create_edges(vertices, new_hvec,
                [i |-> 0, panic |-> FALSE, topology |-> m.topology,
                 properties |-> m.properties, hvec |-> hvec])
    IN  IF e.panic
        THEN [ret |-> Panic, topology |-> e.topology,
              properties |-> e.properties]
        ELSE
        LET t1 == add_face_new_face(e.topology, e.hvec)
            f == n_faces(t1) - 1
            s == add_face_setup(vertices, e.hvec, new_hvec, f, 0,
                    [topology |-> t1, next_cache |-> next_cache,
                     needs_adjust |-> [i \in 0..(n - 1) |-> FALSE]])
            t2 == add_face_process_cache(s.topology, s.next_cache)
            t3 == add_face_adjust(t2, vertices, s.needs_adjust, 0)
        IN  [ret |-> f, topology |-> t3, properties |-> e.properties]

\* add_face from "Create missing edges" to the end: what the call does once
\* both checking loops have passed with the re-links in next_cache
add_face_build(m, vertices, hvec, next_cache) ==
    LET n == Len(vertices)
        new_hvec == [i \in 0..(n - 1) |-> hvec[i] = None]
        e == add_face_create_edges(vertices, new_hvec,
                [i |-> 0, panic |-> FALSE, topology |-> m.topology,
                 properties |-> m.properties, hvec |-> hvec])
    IN  IF e.panic
        THEN [ret |-> Panic, topology |-> e.topology,
              properties |-> e.properties]
        ELSE
        LET p1 == [e.properties EXCEPT !.fprop_ = PropertyContainer_push(@)]
            t1 == add_face_new_face(e.topology, e.hvec)
            f == n_faces(t1) - 1
            s == add_face_setup(vertices, e.hvec, new_hvec, f, 0,
                    [topology |-> t1, next_cache |-> next_cache,
                     needs_adjust |-> [i \in 0..(n - 1) |-> FALSE]])
            t2 == add_face_process_cache(s.topology, s.next_cache)
            t3 == add_face_adjust(t2, vertices, s.needs_adjust, 0)
        IN  [ret |-> f, topology |-> t3, properties |-> p1]

\* add_face with the missing edges created as soon as the first loop has
\* passed, before the pre-pass can still reject
add_face_edges_first(m, vertices) ==
    LET n == Len(vertices)
        t == m.topology
        hvec == add_face_hvec(t, vertices)
        relink == add_face_relink(t, hvec, 0, <<>>)
        e == add_face_create_edges(vertices,
                [i \in 0..(n - 1) |-> hvec[i] = None],
                [i |-> 0, panic |-> FALSE, topology |-> t,
                 properties |-> m.properties, hvec |-> hvec])
    IN  IF add_face_valid_from(t, vertices, 0) < n
        THEN [ret |-> None, topology |-> m.topology,
              properties |-> m.properties]
        ELSE IF relink.status = "none"
        THEN [ret |-> None, topology |-> e.topology,
              properties |-> e.properties]
        ELSE IF relink.status = "panic"
        THEN [ret |-> Panic, topology |-> m.topology,
              properties |-> m.properties]
        ELSE add_face_build(m, vertices, hvec, relink.next_cache)

\* Mesh::add_face: the value returned (a face, None, or Panic) and the mesh
\* the call leaves behind
add_face(m, vertices) ==
    LET n == Len(vertices)
        t == m.topology
        unchanged(r) ==
            [ret |-> r, topology |-> m.topology, properties |-> m.properties]
    IN  IF add_face_valid_from(t, vertices, 0) < n THEN unchanged(None)
        ELSE
        LET hvec == add_face_hvec(t, vertices)
            relink == add_face_relink(t, hvec, 0, <<>>)
        IN  IF relink.status = "none" THEN unchanged(None)
            ELSE IF relink.status = "panic" THEN unchanged(Panic)
            ELSE add_face_build(m, vertices, hvec, relink.next_cache)

\* -------------------------------------------------------------- iterators
\* VerticesAroundFaceCirculator: to_vertex(curr), curr = next(curr), until
\* curr is back at face_halfedge(f)
RECURSIVE vertices_around_face_loop(_, _, _, _)
vertices_around_face_loop(t, curr, end, fuel) ==
    IF fuel = 0 THEN <<>>
    ELSE LET nx == next_halfedge(t, curr)
         IN  <<to_vertex(t, curr)>> \o
             (IF nx = end THEN <<>>
              ELSE vertices_around_face_loop(t, nx, end, fuel - 1))

\* collect() of vertices_around(f); a circulation that has not closed after
\* n_halfedges + 1 items never closes, and is cut there
vertices_around_face(t, f) ==
    vertices_around_face_loop(t, face_halfedge(t, f), face_halfedge(t, f),
                              n_halfedges(t) + 1)

\* the iterators over one kind of entity: the state of an iterator is the
\* index of curr_; next returns the item (or None) and the iterator it leaves
\* VertexIterator::next that compares with < in place of <=
VertexIterator_next_lt(t, curr) ==
    [ret |-> IF n_vertices(t) < curr THEN None ELSE curr, curr_ |-> curr + 1]

VertexIterator_next(t, curr) ==
    [ret |-> IF n_vertices(t) <= curr THEN None ELSE curr, curr_ |-> curr + 1]

FaceIterator_next(t, curr) ==
    [ret |-> IF n_faces(t) <= curr THEN None ELSE curr, curr_ |-> curr + 1]

EdgeIterator_next(t, curr) ==
    [ret |-> IF n_edges(t) <= curr THEN None ELSE curr, curr_ |-> curr + 1]

HalfedgeIterator_next(t, curr) ==
    [ret |-> IF n_halfedges(t) <= curr THEN None ELSE curr, curr_ |-> curr + 1]

\* curr_ of the iterator that vertices(), faces(), edges(), halfedges() return
Iterator_new == 0

IteratorKinds == {"vertices", "faces", "edges", "halfedges"}

Iterator_next(t, kind, curr) ==
    CASE kind = "vertices" -> VertexIterator_next(t, curr)
      [] kind = "faces" -> FaceIterator_next(t, curr)
      [] kind = "edges" -> EdgeIterator_next(t, curr)
      [] kind = "halfedges" -> HalfedgeIterator_next(t, curr)

\* what k successive calls of next return, from an iterator at curr
RECURSIVE Iterator_calls(_, _, _, _)
Iterator_calls(t, kind, curr, k) ==
    IF k = 0 THEN <<>>
    ELSE LET r == Iterator_next(t, kind, curr)
         IN  <<r.ret>> \o Iterator_calls(t, kind, r.curr_, k - 1)

\* the circulators around a vertex, collected: the items yielded and how the
\* circulation ends: "done" (next returned None), "panic" (an unwrap of
\* None) or "diverges" (no end after n_halfedges + 1 steps, so never)
\* HalfedgesAroundVertexCirculator::next, until it returns None
RECURSIVE halfedges_around_vertex_loop(_, _, _, _, _)
halfedges_around_vertex_loop(t, curr, end, active, fuel) ==
    IF curr = None THEN [items |-> <<>>, status |-> "done"]
    ELSE IF active /\ curr = end THEN [items |-> <<>>, status |-> "done"]
    ELSE IF fuel = 0 THEN [items |-> <<>>, status |-> "diverges"]
    ELSE LET rest == halfedges_around_vertex_loop(t,
                        cw_rotated_halfedge(t, curr), end, TRUE, fuel - 1)
         IN  [items |-> <<curr>> \o rest.items, status |-> rest.status]

halfedges_around_vertex(t, v) ==
    halfedges_around_vertex_loop(t, halfedge(t, v), halfedge(t, v), FALSE,
                                 n_halfedges(t) + 1)

\* VerticesAroundVertexCirculator::next, until it returns None
RECURSIVE vertices_around_vertex_loop(_, _, _, _, _)
vertices_around_vertex_loop(t, curr, end, active, fuel) ==
    IF curr = None THEN [items |-> <<>>, status |-> "done"]
    ELSE IF active /\ curr = end THEN [items |-> <<>>, status |-> "done"]
    ELSE IF fuel = 0 THEN [items |-> <<>>, status |-> "diverges"]
    ELSE LET rest == vertices_around_vertex_loop(t,
                        cw_rotated_halfedge(t, curr), end, TRUE, fuel - 1)
         IN  [items |-> <<to_vertex(t, curr)>> \o rest.items,
              status |-> rest.status]

vertices_around_vertex(t, v) ==
    vertices_around_vertex_loop(t, halfedge(t, v), halfedge(t, v), FALSE,
                                n_halfedges(t) + 1)

\* the loops of faces_around and of FacesAroundVertexCirculator::next that
\* rotate to a halfedge with a face: that halfedge, or None when there is
\* none within fuel steps
RECURSIVE faces_around_skip_boundary(_, _, _)
faces_around_skip_boundary(t, h, fuel) ==
    IF ~is_boundary_halfedge(t, h) THEN h
    ELSE IF fuel = 0 THEN None
    ELSE faces_around_skip_boundary(t, cw_rotated_halfedge(t, h), fuel - 1)

\* FacesAroundVertexCirculator::next, until it returns None
RECURSIVE faces_around_vertex_loop(_, _, _, _, _)
faces_around_vertex_loop(t, curr, end, active, fuel) ==
    IF curr = None THEN [items |-> <<>>, status |-> "done"]
    ELSE IF active /\ curr = end THEN [items |-> <<>>, status |-> "done"]
    ELSE IF fuel = 0 THEN [items |-> <<>>, status |-> "diverges"]
    ELSE IF face(t, curr) = None THEN [items |-> <<>>, status |-> "panic"]
    ELSE LET nx == faces_around_skip_boundary(t,
                       cw_rotated_halfedge(t, curr), n_halfedges(t))
         IN  IF nx = None
             THEN [items |-> <<face(t, curr)>>, status |-> "diverges"]
             ELSE LET rest == faces_around_vertex_loop(t, nx, end, TRUE,
                                                       fuel - 1)
                  IN  [items |-> <<face(t, curr)>> \o rest.items,
                       status |-> rest.status]

\* Topology::faces_around(v), collected
faces_around_vertex(t, v) ==
    IF halfedge(t, v) = None
    THEN faces_around_vertex_loop(t, None, None, FALSE, n_halfedges(t) + 1)
    ELSE LET h == faces_around_skip_boundary(t, halfedge(t, v),
                                             n_halfedges(t))
         IN  IF h = None THEN [items |-> <<>>, status |-> "diverges"]
             ELSE faces_around_vertex_loop(t, h, h, FALSE,
                                           n_halfedges(t) + 1)

\* ------------------------------------------------------------ the system
\* Vec<Vertex> arguments: pairwise distinct existing vertices, 3..MaxN long
RECURSIVE Injections(_, _)
Injections(S, k) ==
    IF k = 0 THEN {<<>>}
    ELSE {Append(q, x) : q \in Injections(S, k - 1), x \in S}

IsInjective(q) == \A i, j \in DOMAIN q : i # j => q[i] # q[j]

FaceArgs(t) ==
    UNION {{q \in Injections(Vertices(t) \cap 0..(MaxV - 1), k) :
                IsInjective(q)} : k \in 3..MaxN}

\* vertices rotated left by r places
Rotate(vertices, r) ==
    [i \in 1..Len(vertices) |-> vertices[((i - 1 + r) % Len(vertices)) + 1]]

\* the hub scenario's arguments: the triangles of hub vertex 0 with two
\* neighbouring rim vertices (the rim 1..HubRim taken cyclically), in both
\* orientations; the hub sits at a corner index that varies with the rim vertex
HubNext(a) == (a % HubRim) + 1

HubArgs(t) ==
    {q \in {Rotate(<<0, a, HubNext(a)>>, a % 3) : a \in 1..HubRim}
              \cup {Rotate(<<0, HubNext(a), a>>, a % 3) : a \in 1..HubRim} :
        IsInjective(q) /\ \A i \in DOMAIN q : q[i] \in Vertices(t)}

Init ==
    /\ topology = Topology_new
    /\ properties = Properties_new
    /\ capacity = Capacity_new
    /\ handles = [k \in 1..2 |-> BaseHandle_invalid]
    /\ call = "new"
    /\ ret = None

\* add_vertex(); the vertex counter is capped at cap
AddVertexOf(cap) ==
    /\ n_vertices(topology) < cap
    /\ LET r == add_vertex([topology |-> topology, properties |-> properties])
       IN  /\ topology' = r.topology
           /\ properties' = r.properties
           /\ capacity' = pushed_capacity(capacity, topology, r.topology)
           /\ call' = "add_vertex"
           /\ ret' = r.ret
           /\ UNCHANGED handles

\* add_face(vertices); the face counter is capped at cap: a call that would
\* add a face beyond it is not made
AddFaceOf(args, cap) ==
    \E vertices \in args :
        LET r == add_face([topology |-> topology, properties |-> properties],
                          vertices)
        IN  /\ (r.ret = None \/ n_faces(topology) < cap)
            /\ topology' = r.topology
            /\ properties' = r.properties
            /\ capacity' = pushed_capacity(capacity, topology, r.topology)
            /\ call' = "add_face"
            /\ ret' = r.ret
            /\ UNCHANGED handles

AddVertex == AddVertexOf(MaxV)

AddFace == AddFaceOf(FaceArgs(topology), MaxF)

Next == AddVertex \/ AddFace

Spec == Init /\ [][Next]_vars

\* the hub scenario: the same operations, add_face on the hub triangles
AddVertexHub == AddVertexOf(HubRim + 1)

AddFaceHub == AddFaceOf(HubArgs(topology), HubF)

NextHub == AddVertexHub \/ AddFaceHub

SpecHub == Init /\ [][NextHub]_vars

\* the property scenario: names, element types and values handed to the
\* property calls
PropNames == {"v:my_prop", "f:my_prop"}

PropTypes == {"u32", "f32"}

PropValues == {17, 42}

\* the default of a property is the one its element type is given in the calls
PropDefault(type) == IF type = "u32" THEN 17 ELSE 42

\* add_vertices(nb)
AddVerticesOf(cap) ==
    \E nb \in 0..MaxNb :
        /\ n_vertices(topology) + nb <= cap
        /\ LET r == add_vertices([topology |-> topology,
                                  properties |-> properties], nb)
           IN  /\ topology' = r.topology
               /\ properties' = r.properties
               /\ capacity' = add_vertices_capacity(capacity, topology, nb)
               /\ call' = "add_vertices"
               /\ ret' = r.ret
               /\ UNCHANGED handles

\* the number of properties over the four kinds
n_properties(p) ==
    PropertyVec_len(p.vprop_.parrays_) + PropertyVec_len(p.hprop_.parrays_)
    + PropertyVec_len(p.eprop_.parrays_) + PropertyVec_len(p.fprop_.parrays_)

\* the rows of the properties p that hold another value than the default
WrittenRows(p) ==
    {x \in UNION {{<<kind, s, h>> : s \in DOMAIN p[kind].parrays_,
                                     h \in 0..(p[kind].size_ - 1)} :
                   kind \in Kinds} :
        p[x[1]].parrays_[x[2]].data[x[3]] # p[x[1]].parrays_[x[2]].default}

\* add_*_property::<type>(name, default); a call that would add a property
\* beyond MaxP is not made
AddProperty ==
    \E kind \in Kinds, name \in PropNames, type \in PropTypes :
        LET r == add_property(properties, kind, name, type, PropDefault(type))
        IN  /\ (r.ret = None \/ n_properties(properties) < MaxP)
            /\ properties' = r.properties
            /\ call' = "add_property"
            /\ ret' = r.ret
            /\ UNCHANGED <<topology, capacity, handles>>

\* properties[(prop, h)] = value on an existing row of an existing property
SetProperty ==
    \E kind \in Kinds, value \in PropValues :
        \E prop \in PropertyContainer_slots(properties[kind]) :
            \E h \in 0..(properties[kind].size_ - 1) :
                LET p1 == Properties_index_mut(properties, kind, prop, h,
                                               value)
                IN  /\ Cardinality(WrittenRows(p1)) <= MaxWrites
                    /\ properties' = p1
                    /\ call' = "index_mut"
                    /\ ret' = None
                    /\ UNCHANGED <<topology, capacity, handles>>

AddVertexProp == AddVertexOf(PropV)

AddVerticesProp == AddVerticesOf(PropV)

AddFaceProp == AddFaceOf(FaceArgs(topology), PropF)

NextProp ==
    AddVertexProp \/ AddVerticesProp \/ AddFaceProp \/ AddProperty
    \/ SetProperty

SpecProp == Init /\ [][NextProp]_vars

\* the reserve scenario: a small mesh with properties, and the three reserve
\* calls with sizes up to MaxReserve
VertexReserve ==
    \E size \in 0..MaxReserve :
        LET m1 == vertex_reserve([topology |-> topology,
                                  properties |-> properties], size)
        IN  /\ topology' = m1.topology
            /\ properties' = m1.properties
            /\ capacity' = vertex_reserve_capacity(capacity, size)
            /\ call' = "vertex_reserve"
            /\ ret' = None
            /\ UNCHANGED handles

FaceReserve ==
    \E size \in 0..MaxReserve :
        LET m1 == face_reserve([topology |-> topology,
                                properties |-> properties], size)
        IN  /\ topology' = m1.topology
            /\ properties' = m1.properties
            /\ capacity' = face_reserve_capacity(capacity, size)
            /\ call' = "face_reserve"
            /\ ret' = None
            /\ UNCHANGED handles

EdgeReserve ==
    \E size \in 0..MaxReserve :
        LET m1 == edge_reserve([topology |-> topology,
                                properties |-> properties], size)
        IN  /\ topology' = m1.topology
            /\ properties' = m1.properties
            /\ capacity' = edge_reserve_capacity(capacity, size)
            /\ call' = "edge_reserve"
            /\ ret' = None
            /\ UNCHANGED handles

AddVertexRes == AddVertexOf(ResV)

AddVerticesRes == AddVerticesOf(ResV)

AddFaceRes == AddFaceOf(HubArgs(topology), ResF)

\* add_vertex_property::<u32>("v:my_prop", 17), once
AddPropertyRes ==
    LET r == add_property(properties, "vprop_", "v:my_prop", "u32", 17)
    IN  /\ r.ret # None
        /\ properties' = r.properties
        /\ call' = "add_property"
        /\ ret' = r.ret
        /\ UNCHANGED <<topology, capacity, handles>>

NextReserve ==
    VertexReserve \/ FaceReserve \/ EdgeReserve \/ AddVertexRes
    \/ AddVerticesRes \/ AddFaceRes \/ AddPropertyRes

SpecReserve == Init /\ [][NextReserve]_vars

\* the handle scenario: a client makes, resets, reads and compares two
\* handles
HandleNew ==
    \E k \in 1..2, idx \in 0..MaxIdx :
        /\ handles' = [handles EXCEPT ![k] = BaseHandle_new(idx)]
        /\ call' = "new_handle"
        /\ ret' = BaseHandle_new(idx)
        /\ UNCHANGED <<topology, properties, capacity>>

HandleInvalid ==
    \E k \in 1..2 :
        /\ handles' = [handles EXCEPT ![k] = BaseHandle_invalid]
        /\ call' = "invalid"
        /\ ret' = BaseHandle_invalid
        /\ UNCHANGED <<topology, properties, capacity>>

HandleReset ==
    \E k \in 1..2 :
        /\ handles' = [handles EXCEPT ![k] = BaseHandle_reset(@)]
        /\ call' = "reset"
        /\ ret' = None
        /\ UNCHANGED <<topology, properties, capacity>>

HandleIdx ==
    \E k \in 1..2 :
        /\ call' = "idx"
        /\ ret' = BaseHandle_idx(handles[k])
        /\ UNCHANGED <<topology, properties, capacity, handles>>

HandleIsValid ==
    \E k \in 1..2 :
        /\ call' = "is_valid"
        /\ ret' = BaseHandle_is_valid(handles[k])
        /\ UNCHANGED <<topology, properties, capacity, handles>>

HandleCmp ==
    /\ call' = "cmp"
    /\ ret' = BaseHandle_cmp(handles[1], handles[2])
    /\ UNCHANGED <<topology, properties, capacity, handles>>

HandlePartialCmp ==
    /\ call' = "partial_cmp"
    /\ ret' = BaseHandle_partial_cmp(handles[1], handles[2])
    /\ UNCHANGED <<topology, properties, capacity, handles>>

HandleEq ==
    /\ call' = "eq"
    /\ ret' = BaseHandle_eq(handles[1], handles[2])
    /\ UNCHANGED <<topology, properties, capacity, handles>>

NextHandle ==
    HandleNew \/ HandleInvalid \/ HandleReset \/ HandleIdx \/ HandleIsValid
    \/ HandleCmp \/ HandlePartialCmp \/ HandleEq

SpecHandle == Init /\ [][NextHandle]_vars

\* ------------------------------------------------------- the properties
\* the mesh of the current state, and every argument a call may be given
M == [topology |-> topology, properties |-> properties]

Args == FaceArgs(topology) \cup HubArgs(topology)

Accepted(r) == r.ret # None /\ r.ret # Panic

\* halfedges leaving / entering v, by the vertex stored on the edge itself
OutgoingAt(t, v) ==
    {h \in Halfedges(t) : to_vertex(t, opposite_halfedge(h)) = v}

IncomingAt(t, v) == {h \in Halfedges(t) : to_vertex(t, h) = v}

\* where add_face(vertices) returns: "vertex" (a vertex is not boundary),
\* "halfedge" (an existing halfedge has a face), "relink" (dead end of the
\* pre-pass), "panic", or "accept"
RejectPoint(t, vertices) ==
    LET n == Len(vertices)
        i == add_face_valid_from(t, vertices, 0)
    IN  IF i < n
        THEN IF ~is_boundary_vertex(t, At(vertices, i)) THEN "vertex"
             ELSE "halfedge"
        ELSE LET st == add_face_relink(t, add_face_hvec(t, vertices), 0,
                                       <<>>).status
             IN  IF st = "none" THEN "relink"
                 ELSE IF st = "panic" THEN "panic" ELSE "accept"

\* C1: a call of add_face that returns None leaves the whole mesh as it was:
\* the connectivity of every vertex, halfedge and face, all counts and all
\* property row counts, at each of the three rejection points.
C1_RejectedAddFaceChangesNothing ==
    \A vertices \in Args :
        LET r == add_face(M, vertices)
        IN  r.ret = None =>
                /\ r.topology = topology
                /\ r.properties = properties
                /\ RejectPoint(topology, vertices)
                       \in {"vertex", "halfedge", "relink"}

\* a rejected call has just returned, in a mesh where a re-link dead end and
\* an occupied halfedge are both among the rejections
C1_Witness ==
    /\ call = "add_face" /\ ret = None
    /\ \E vertices \in Args : RejectPoint(topology, vertices) = "relink"
    /\ \E vertices \in Args : RejectPoint(topology, vertices) = "halfedge"

\* a rejected call has just returned in a mesh with an interior vertex
C1_WitnessVertex ==
    /\ call = "add_face" /\ ret = None
    /\ \E vertices \in Args : RejectPoint(topology, vertices) = "vertex"

\* C2: when add_face(vertices) returns Some(f), n_faces has grown by exactly
\* one and vertices_around(f) is the argument itself, same order, same start.
C2_AcceptedFaceCirculatesItsVertices ==
    \A vertices \in Args :
        LET r == add_face(M, vertices)
        IN  Accepted(r) =>
                /\ n_faces(r.topology) = n_faces(topology) + 1
                /\ r.ret = n_faces(topology)
                /\ vertices_around_face(r.topology, r.ret) = vertices

\* a face has just been added, and some argument is accepted here with a
\* patch re-link queued by the pre-pass
C2_Witness ==
    /\ call = "add_face" /\ ret \in Faces(topology)
    /\ vertices_around_face(topology, ret) \in Args
    /\ \E vertices \in Args :
          /\ RejectPoint(topology, vertices) = "accept"
          /\ add_face_relink(topology, add_face_hvec(topology, vertices), 0,
                             <<>>).next_cache # <<>>

\* the faces between the boundary halfedges inner_next and inner_prev around
\* their shared vertex form a complete fan: rotating from opposite(inner_next)
\* by opposite(next(.)) crosses faces only and arrives at inner_prev
RECURSIVE FanReaches(_, _, _, _)
FanReaches(t, h, inner_prev, fuel) ==
    IF h = inner_prev THEN TRUE
    ELSE IF fuel = 0 \/ is_boundary_halfedge(t, h) THEN FALSE
    ELSE FanReaches(t, opposite_halfedge(next_halfedge(t, h)), inner_prev,
                    fuel - 1)

\* corner i of vertices would close the fan around its vertex although the
\* vertex has further boundary halfedges
ClosesFanAtBoundary(t, vertices, i) ==
    LET n == Len(vertices)
        v == At(vertices, (i + 1) % n)
        hvec == add_face_hvec(t, vertices)
        inner_prev == hvec[i]
        inner_next == hvec[(i + 1) % n]
    IN  /\ inner_prev # None /\ inner_next # None
        /\ is_boundary_halfedge(t, inner_prev)
        /\ is_boundary_halfedge(t, inner_next)
        /\ FanReaches(t, opposite_halfedge(inner_next), inner_prev,
                      n_halfedges(t))
        /\ \E b \in IncomingAt(t, v) :
              b # inner_prev /\ is_boundary_halfedge(t, b)

\* C3 (as claimed): add_face returns None whenever some corner would close
\* the fan around a vertex that still has other boundary halfedges, however
\* many boundary patches the vertex has.
C3_FanClosingIsRejected ==
    \A vertices \in Args :
        (\E i \in 0..(Len(vertices) - 1) :
            ClosesFanAtBoundary(topology, vertices, i))
        => add_face(M, vertices).ret = None

\* I5 for one mesh: a vertex with a boundary halfedge leaving it has a
\* boundary halfedge as its outgoing halfedge
I5(t) ==
    \A v \in Vertices(t) :
        (\E h \in OutgoingAt(t, v) : face(t, h) = None)
        => /\ halfedge(t, v) # None
           /\ face(t, halfedge(t, v)) = None

\* C4 (as claimed): I5 holds after every add_vertex and every add_face, so
\* is_boundary_vertex(v) is true exactly when v is isolated or has a boundary
\* halfedge leaving it.
C4_BoundaryVertexHasBoundaryHalfedge ==
    /\ I5(topology)
    /\ \A v \in Vertices(topology) :
          is_boundary_vertex(topology, v)
          <=> \/ OutgoingAt(topology, v) = {}
              \/ \E h \in OutgoingAt(topology, v) : face(topology, h) = None

\* HalfedgesAroundFaceCirculator, collected; cut like vertices_around_face
RECURSIVE halfedges_around_face_loop(_, _, _, _)
halfedges_around_face_loop(t, curr, end, fuel) ==
    IF fuel = 0 \/ curr \notin Halfedges(t) THEN <<>>
    ELSE LET nx == next_halfedge(t, curr)
         IN  <<curr>> \o
             (IF nx = end THEN <<>>
              ELSE halfedges_around_face_loop(t, nx, end, fuel - 1))

halfedges_around_face(t, f) ==
    halfedges_around_face_loop(t, face_halfedge(t, f), face_halfedge(t, f),
                               n_halfedges(t) + 1)

Range(q) == {q[i] : i \in DOMAIN q}

\* C5: for every face f, following next from face_halfedge(f) comes back to
\* it after k >= 3 steps, every halfedge on the way has face f, and every
\* halfedge with face f is on that cycle.
C5_FaceCyclesAreClosed ==
    \A f \in Faces(topology) :
        LET cycle == halfedges_around_face(topology, f)
        IN  /\ face_halfedge(topology, f) \in Halfedges(topology)
            /\ 3 <= Len(cycle) /\ Len(cycle) <= n_halfedges(topology)
            /\ next_halfedge(topology, cycle[Len(cycle)])
                   = face_halfedge(topology, f)
            /\ Range(cycle)
                   = {h \in Halfedges(topology) : face(topology, h) = f}

\* two faces are there, one of them made of halfedges that already existed
C5_Witness ==
    /\ call = "add_face" /\ ret \in Faces(topology) /\ ret >= 1
    /\ \E h \in Range(halfedges_around_face(topology, ret)) :
          \E g \in Halfedges(topology) : g > h /\ face(topology, g) # ret

\* C6: every halfedge has a valid next and a valid prev, and next(a) = b
\* exactly when prev(b) = a.
C6_NextPrevCoherent ==
    /\ \A h \in Halfedges(topology) :
          /\ next_halfedge(topology, h) \in Halfedges(topology)
          /\ prev_halfedge(topology, h) \in Halfedges(topology)
    /\ \A a, b \in Halfedges(topology) :
          next_halfedge(topology, a) = b <=> prev_halfedge(topology, b) = a

\* a face was added next to an existing one: boundary halfedges were re-linked
C6_Witness ==
    /\ call = "add_face" /\ ret \in Faces(topology)
    /\ \E h \in Halfedges(topology) :
          /\ face(topology, h) = ret
          /\ face(topology, opposite_halfedge(h)) \notin {None, ret}

\* C7: for every halfedge h, boundary or not, the start vertex read through
\* prev is the one stored on the opposite halfedge, and next(h) starts where
\* h ends.
C7_CyclesVertexConsistent ==
    \A h \in Halfedges(topology) :
        /\ prev_halfedge(topology, h) \in Halfedges(topology)
        /\ next_halfedge(topology, h) \in Halfedges(topology)
        /\ from_vertex(topology, h)
               = to_vertex(topology, opposite_halfedge(h))
        /\ from_vertex(topology, next_halfedge(topology, h))
               = to_vertex(topology, h)

\* a vertex carries two faces that share no edge at it, so the boundary
\* around it runs from one patch into the other
C7_Witness ==
    /\ call = "add_face" /\ ret \in Faces(topology)
    /\ \E h \in Halfedges(topology) :
          /\ face(topology, h) = None
          /\ face(topology, next_halfedge(topology, h)) = None
          /\ face(topology, opposite_halfedge(h))
                # face(topology,
                       opposite_halfedge(next_halfedge(topology, h)))

\* C8: n_halfedges = 2 * n_edges; opposite(h) is an existing halfedge of the
\* same edge, different from h, whose opposite is h; and edge_halfedge(e, 0),
\* edge_halfedge(e, 1) are exactly the halfedges of edge e.
C8_EdgePairing ==
    /\ n_halfedges(topology) = 2 * n_edges(topology)
    /\ properties.hprop_.size_ = 2 * properties.eprop_.size_
    /\ \A h \in Halfedges(topology) :
          /\ opposite_halfedge(h) \in Halfedges(topology)
          /\ opposite_halfedge(opposite_halfedge(h)) = h
          /\ opposite_halfedge(h) # h
          /\ edge(opposite_halfedge(h)) = edge(h)
          /\ to_vertex(topology, opposite_halfedge(h)) # to_vertex(topology, h)
    /\ \A e \in Edges(topology) :
          {edge_halfedge(e, 0), edge_halfedge(e, 1)}
              = {h \in Halfedges(topology) : edge(h) = e}

\* edges exist, some made by an earlier call than the last
C8_Witness ==
    /\ call = "add_face" /\ ret \in Faces(topology)
    /\ n_edges(topology) >= 4

\* the faces around v, and the fans they form: two faces are in one fan when
\* a chain of edges at v, each with a face on either side, joins them
FacesAt(t, v) == {face(t, h) : h \in {g \in IncomingAt(t, v) : face(t, g) # None}}

\* the pairs of faces that meet in an edge at v
AdjacentAt(t, v) ==
    LET sides == {<<face(t, h), face(t, opposite_halfedge(h))>> :
                    h \in IncomingAt(t, v)}
    IN  sides \cup {<<p[2], p[1]>> : p \in sides}

RECURSIVE FanOf(_, _, _)
FanOf(faces, adjacent, S) ==
    LET S1 == S \cup {g \in faces : \E f \in S : <<f, g>> \in adjacent}
    IN  IF S1 = S THEN S ELSE FanOf(faces, adjacent, S1)

FanCount(t, v) ==
    LET faces == FacesAt(t, v)
        adjacent == AdjacentAt(t, v)
    IN  Cardinality({FanOf(faces, adjacent, {f}) : f \in faces})

\* C9 (as claimed): in every reachable mesh the faces at any vertex form a
\* single fan.
C9_EveryVertexHasOneFan ==
    \A v \in Vertices(topology) : FanCount(topology, v) <= 1

\* both halfedges of the new face at v are new to add_face: find_halfedge
\* found neither of them
BothNewCorner(t, vertices, v) ==
    LET n == Len(vertices)
        hvec == add_face_hvec(t, vertices)
    IN  \E i \in 0..(n - 1) :
            /\ At(vertices, (i + 1) % n) = v
            /\ hvec[i] = None /\ hvec[(i + 1) % n] = None

\* C9 (amended): a successful add_face gives a vertex one more fan exactly at
\* the corners where it found neither of the face's two edges, also when the
\* vertex has faces already; at every other vertex the number of fans does
\* not grow.
C9_FansGrowOnlyAtNewCorners ==
    \A vertices \in Args :
        LET r == add_face(M, vertices)
        IN  Accepted(r) =>
              \A v \in Vertices(topology) :
                 IF BothNewCorner(topology, vertices, v)
                 THEN FanCount(r.topology, v) = FanCount(topology, v) + 1
                 ELSE FanCount(r.topology, v) <= FanCount(topology, v)

\* a face has just been added and some vertex carries two separate fans
C9_Witness ==
    /\ call = "add_face" /\ ret \in Faces(topology)
    /\ \E v \in Vertices(topology) : FanCount(topology, v) >= 2

\* every ordering of the vertices of q
Orderings(q) ==
    {p \in Injections(Range(q), Len(q)) : IsInjective(p)}

RECURSIVE CwCycle(_, _, _)
CwCycle(t, h, S) ==
    IF h \in S \/ h \notin Halfedges(t) THEN S
    ELSE CwCycle(t, cw_rotated_halfedge(t, h), S \cup {h})

\* some halfedge of face f is on the cw walk of the vertex it leaves
FaceSeenFromVertex(t, f) ==
    \E h \in Halfedges(t) :
        /\ face(t, h) = f
        /\ LET v == from_vertex(t, h)
           IN  halfedge(t, v) # None /\ h \in CwCycle(t, halfedge(t, v), {})

HalfedgesFromTo(t, s, e) ==
    {h \in Halfedges(t) :
        to_vertex(t, opposite_halfedge(h)) = s /\ to_vertex(t, h) = e}

\* some edge vs[i] -> vs[i+1] of the argument is already a halfedge with a face
HasOccupiedHalfedge(t, vertices) ==
    \E i \in 0..(Len(vertices) - 1) :
        \E h \in HalfedgesFromTo(t, At(vertices, i),
                                  At(vertices, (i + 1) % Len(vertices))) :
            face(t, h) # None

\* C11 (as claimed): when a halfedge from vs[i] to vs[i+1] already exists and
\* already has a face, add_face(vs) returns None and n_faces is unchanged.
C11_OccupiedHalfedgeIsRejected ==
    \A vertices \in Args :
        HasOccupiedHalfedge(topology, vertices) =>
            LET r == add_face(M, vertices)
            IN  r.ret = None /\ n_faces(r.topology) = n_faces(topology)

\* v has a closed one-ring: halfedges leave it and each of them has a face
ClosedOneRing(t, v) ==
    /\ OutgoingAt(t, v) # {}
    /\ \A h \in OutgoingAt(t, v) : face(t, h) # None

\* C12: add_face(vs) returns None, and changes nothing, whenever some vertex
\* of vs has a closed one-ring.
C12_ClosedOneRingIsRejected ==
    \A vertices \in Args :
        (\E i \in 0..(Len(vertices) - 1) :
            ClosedOneRing(topology, At(vertices, i)))
        => LET r == add_face(M, vertices)
           IN  r.ret = None /\ r.topology = topology

\* a call has just been rejected in a mesh with a closed one-ring, where an
\* argument joins such a vertex to two vertices that have no halfedge yet
C12_Witness ==
    /\ call = "add_face" /\ ret = None
    /\ \E vertices \in Args :
          /\ ClosedOneRing(topology, At(vertices, 0))
          /\ halfedge(topology, At(vertices, 1)) = None
          /\ halfedge(topology, At(vertices, 2)) = None

\* every property of container c has exactly n rows, and so has c itself
RowParity(c, n) ==
    /\ c.size_ = n
    /\ \A s \in PropertyContainer_slots(c) :
          DOMAIN c.parrays_[s].data = 0..(n - 1)

\* C13: I7 after every add_*_property, add_vertex, add_vertices and add_face,
\* accepted or rejected, in any order: a vertex property has n_vertices rows,
\* a halfedge property n_halfedges, an edge property n_edges and a face
\* property n_faces.
C13_PropertyRowParity ==
    /\ RowParity(properties.vprop_, n_vertices(topology))
    /\ RowParity(properties.hprop_, n_halfedges(topology))
    /\ RowParity(properties.eprop_, n_edges(topology))
    /\ RowParity(properties.fprop_, n_faces(topology))

\* a face has just been added to a mesh that had a face property and a
\* halfedge or edge property before
C13_Witness ==
    /\ call = "add_face" /\ ret \in Faces(topology)
    /\ PropertyContainer_slots(properties.fprop_) # {}
    /\ PropertyContainer_slots(properties.hprop_)
         \cup PropertyContainer_slots(properties.eprop_) # {}

\* C14 (as claimed): for all vertices s, e, find_halfedge(s, e) is a halfedge
\* h with from_vertex(h) = s and to_vertex(h) = e when such a halfedge is in
\* the mesh, and is None only when there is none.
C14_FindHalfedgeIsComplete ==
    \A s, e \in Vertices(topology) :
        LET h == find_halfedge(topology, s, e)
        IN  IF HalfedgesFromTo(topology, s, e) # {}
            THEN /\ h \in HalfedgesFromTo(topology, s, e)
                 /\ from_vertex(topology, h) = s
                 /\ to_vertex(topology, h) = e
            ELSE h = None

\* the corners i of the argument with no halfedge vs[i] -> vs[i+1] in the mesh
MissingEdges(t, vertices) ==
    {i \in 0..(Len(vertices) - 1) :
        HalfedgesFromTo(t, At(vertices, i),
                        At(vertices, (i + 1) % Len(vertices))) = {}}

\* C16 (as claimed): a successful add_face(vs) leaves n_vertices unchanged,
\* adds one face, and adds one edge (two halfedges) for each i with no
\* halfedge vs[i] -> vs[i+1] before the call, and no other; the new edge e has
\* halfedge 2e to vs[i+1] and halfedge 2e+1 to vs[i].
C16_CountsAfterAddFace ==
    \A vertices \in Args :
        LET r == add_face(M, vertices)
            n == Len(vertices)
            missing == MissingEdges(topology, vertices)
        IN  Accepted(r) =>
              /\ n_vertices(r.topology) = n_vertices(topology)
              /\ n_faces(r.topology) = n_faces(topology) + 1
              /\ n_edges(r.topology)
                    = n_edges(topology) + Cardinality(missing)
              /\ n_halfedges(r.topology)
                    = n_halfedges(topology) + 2 * Cardinality(missing)
              /\ \A e \in Edges(r.topology) \ Edges(topology) :
                    \E i \in missing :
                       /\ to_vertex(r.topology, edge_halfedge(e, 0))
                             = At(vertices, (i + 1) % n)
                       /\ to_vertex(r.topology, edge_halfedge(e, 1))
                             = At(vertices, i)

\* the three documented reasons for add_face(vertices) to return None
NotBoundaryVertexIn(t, vertices) ==
    \E i \in 0..(Len(vertices) - 1) : ~is_boundary_vertex(t, At(vertices, i))

\* corner i has two halfedges that were there before, not consecutive, and
\* the boundary walk around their vertex ends with next(boundary_prev) =
\* inner_next
DeadEndCorner(t, vertices, i) ==
    LET n == Len(vertices)
        inner_prev == find_halfedge(t, At(vertices, i),
                                    At(vertices, (i + 1) % n))
        inner_next == find_halfedge(t, At(vertices, (i + 1) % n),
                                    At(vertices, (i + 2) % n))
    IN  /\ inner_prev # None /\ inner_next # None
        /\ next_halfedge(t, inner_prev) # inner_next
        /\ next_halfedge(t,
              add_face_boundary_prev(t, opposite_halfedge(inner_next),
                                     inner_prev)) = inner_next

\* C15: add_face(vs) returns None only when a vertex of vs is not a boundary
\* vertex, or a halfedge vs[i] -> vs[i+1] has a face already, or a corner is
\* a dead end of the boundary walk; in every other case it returns Some(f)
\* with f the number of faces before the call.
C15_RejectedOnlyForThreeReasons ==
    \A vertices \in Args :
        LET r == add_face(M, vertices)
            r1 == NotBoundaryVertexIn(topology, vertices)
            r2 == HasOccupiedHalfedge(topology, vertices)
            r3 == /\ ~r1 /\ ~r2
                  /\ \E i \in 0..(Len(vertices) - 1) :
                        DeadEndCorner(topology, vertices, i)
        IN  /\ r.ret = None => (r1 \/ r2 \/ r3)
            /\ ~(r1 \/ r2 \/ r3) =>
                  /\ r.ret = n_faces(topology)
                  /\ n_faces(r.topology) = n_faces(topology) + 1

\* a triangle has just joined two faces that shared no edge, using one
\* boundary halfedge of each and one new edge, and a dead-end argument is
\* rejected in the mesh it leaves
C15_Witness ==
    /\ call = "add_face" /\ ret \in Faces(topology)
    /\ \E g, h \in Halfedges(topology) :
          /\ g # h
          /\ face(topology, g) = ret /\ face(topology, h) = ret
          /\ face(topology, opposite_halfedge(g)) \notin {None, ret}
          /\ face(topology, opposite_halfedge(h)) \notin {None, ret}
          /\ face(topology, opposite_halfedge(g))
                # face(topology, opposite_halfedge(h))
    /\ \E h \in Halfedges(topology) :
          face(topology, h) = ret /\ face(topology, opposite_halfedge(h)) = None
    /\ \E vertices \in Args :
          /\ ~NotBoundaryVertexIn(topology, vertices)
          /\ ~HasOccupiedHalfedge(topology, vertices)
          /\ \E i \in 0..(Len(vertices) - 1) :
                DeadEndCorner(topology, vertices, i)

\* C17: add_vertex returns the vertex whose index is n_vertices before the
\* call; afterwards there is one vertex more, the new vertex has no halfedge
\* and is a boundary vertex, and every halfedge, edge, face and the
\* connectivity of every other vertex are as before.
C17_AddVertexFrame ==
    LET r == add_vertex(M)
    IN  /\ r.ret = n_vertices(topology)
        /\ n_vertices(r.topology) = n_vertices(topology) + 1
        /\ Vertices(r.topology) = Vertices(topology) \cup {r.ret}
        /\ halfedge(r.topology, r.ret) = None
        /\ is_boundary_vertex(r.topology, r.ret)
        /\ OutgoingAt(r.topology, r.ret) = {}
        /\ IncomingAt(r.topology, r.ret) = {}
        /\ \A v \in Vertices(topology) :
              halfedge(r.topology, v) = halfedge(topology, v)
        /\ r.topology.hconn_ = topology.hconn_
        /\ r.topology.fconn_ = topology.fconn_
        /\ n_edges(r.topology) = n_edges(topology)
        /\ n_halfedges(r.topology) = n_halfedges(topology)
        /\ n_faces(r.topology) = n_faces(topology)
        /\ r.properties.vprop_.size_ = properties.vprop_.size_ + 1
        /\ r.properties.hprop_ = properties.hprop_
        /\ r.properties.eprop_ = properties.eprop_
        /\ r.properties.fprop_ = properties.fprop_

\* add_vertex has just returned in a mesh that has faces, whose vertices have
\* halfedges
C17_Witness ==
    /\ call = "add_vertex"
    /\ ret = n_vertices(topology) - 1
    /\ n_faces(topology) >= 2
    /\ halfedge(topology, ret) = None
    /\ \E v \in Vertices(topology) : halfedge(topology, v) # None

\* k consecutive calls of add_vertex: the handles they return, in order, and
\* the mesh after the last
RECURSIVE AddVertexTimes(_, _, _)
AddVertexTimes(m, vec, k) ==
    IF k = 0 THEN [ret |-> vec, topology |-> m.topology,
                   properties |-> m.properties]
    ELSE LET r == add_vertex(m)
         IN  AddVertexTimes([topology |-> r.topology,
                             properties |-> r.properties],
                            Append(vec, r.ret), k - 1)

\* C18: add_vertices(nb) returns nb handles with the indices n_vertices,
\* n_vertices + 1, ... in that order, n_vertices grows by nb, every vertex
\* property keeps its rows and gains nb default rows, and the mesh is the
\* one that nb calls of add_vertex leave.
C18_AddVerticesIsRepeatedAddVertex ==
    \A nb \in 0..MaxNb :
        LET r == add_vertices(M, nb)
            one == AddVertexTimes(M, <<>>, nb)
            old_n == n_vertices(topology)
        IN  /\ Len(r.ret) = nb
            /\ \A k \in 1..nb : r.ret[k] = old_n + k - 1
            /\ r.ret = one.ret
            /\ n_vertices(r.topology) = old_n + nb
            /\ r.topology = one.topology
            /\ r.properties = one.properties
            /\ \A s \in PropertyContainer_slots(properties.vprop_) :
                  \A h \in 0..(old_n + nb - 1) :
                     PropertyContainer_index(r.properties.vprop_, s, h)
                       = IF h < old_n
                         THEN PropertyContainer_index(properties.vprop_, s, h)
                         ELSE properties.vprop_.parrays_[s].default

\* add_vertices has just added two vertices to a mesh that had vertices and
\* a vertex property with a row that was written
C18_Witness ==
    /\ call = "add_vertices"
    /\ Len(ret) = 2 /\ ret[1] >= 1
    /\ \E x \in WrittenRows(properties) : x[1] = "vprop_"

\* the names of the properties of container c
PropertyNames(c) == {c.parrays_[s].name : s \in PropertyContainer_slots(c)}

\* C19: add_*_property(name, default) returns None when the kind has a
\* property of that name, whatever element type is asked for, and then the
\* properties (values, element types, row counts) are as before; the first
\* add of a name returns Some, and the kind then has the property with one
\* default row per entity, the other properties being as before.
C19_AddPropertyNameCollision ==
    \A kind \in Kinds, name \in PropNames, type \in PropTypes,
       default \in PropValues :
        LET r == add_property(properties, kind, name, type, default)
            c == properties[kind]
            c1 == r.properties[kind]
        IN  IF name \in PropertyNames(c)
            THEN r.ret = None /\ r.properties = properties
            ELSE /\ r.ret # None
                 /\ PropertyContainer_slots(c1)
                       = PropertyContainer_slots(c) \cup {r.ret}
                 /\ r.ret \notin PropertyContainer_slots(c)
                 /\ c1.parrays_[r.ret].name = name
                 /\ c1.parrays_[r.ret].type = type
                 /\ \A h \in 0..(c.size_ - 1) :
                       PropertyContainer_index(c1, r.ret, h) = default
                 /\ \A s \in PropertyContainer_slots(c) :
                       c1.parrays_[s] = c.parrays_[s]
                 /\ \A k \in Kinds \ {kind} :
                       r.properties[k] = properties[k]
                 /\ \A type2 \in PropTypes :
                       add_property(r.properties, kind, name, type2,
                                    default).ret = None

\* an add of a name that was taken has just returned None, in a mesh where
\* a row of some property holds a written value
C19_Witness ==
    /\ call = "add_property" /\ ret = None
    /\ WrittenRows(properties) # {}
    /\ \E kind \in Kinds : properties[kind].size_ >= 2

\* get_*_property::<type>(name) on the properties p: Some exactly for a
\* property of that kind, name and element type, and then the handle of that
\* very property
GetIsExact(p) ==
    \A kind \in Kinds, name \in PropNames, type \in PropTypes :
        LET g == get_property(p, kind, name, type)
            c == p[kind]
        IN  /\ g # None <=>
                  \E s \in PropertyContainer_slots(c) :
                     c.parrays_[s].name = name /\ c.parrays_[s].type = type
            /\ name \notin PropertyNames(c) => g = None
            /\ g # None =>
                  /\ g \in PropertyContainer_slots(c)
                  /\ c.parrays_[g].name = name
                  /\ c.parrays_[g].type = type

\* the handle an add returns and the handle a later get of the same name and
\* type returns are one storage: what is written at row h through either is
\* read through the other, and a get with another type returns None
AddThenGetSharesStorage(p) ==
    \A kind \in Kinds, name \in PropNames, type \in PropTypes,
       value \in PropValues :
        LET a == add_property(p, kind, name, type, PropDefault(type))
            g == get_property(a.properties, kind, name, type)
        IN  a.ret # None =>
              /\ g # None
              /\ \A type2 \in PropTypes \ {type} :
                    get_property(a.properties, kind, name, type2) = None
              /\ \A h \in 0..(p[kind].size_ - 1) :
                    /\ Properties_index(
                          Properties_index_mut(a.properties, kind, a.ret, h,
                                               value), kind, g, h) = value
                    /\ Properties_index(
                          Properties_index_mut(a.properties, kind, g, h,
                                               value), kind, a.ret, h) = value

\* a handle that get returns stays the handle of that name and type over
\* every operation
GetIsStable ==
    \A kind \in Kinds, name \in PropNames, type \in PropTypes :
        get_property(properties, kind, name, type) # None =>
            get_property(properties', kind, name, type)
              = get_property(properties, kind, name, type)

\* C20: get_*_property::<D>(name) returns Some exactly when a property of
\* that kind and name was added with element type D, None for a name never
\* added and for another element type; the handle is the one add returned,
\* over all later operations, and a value written through one of the two at
\* row r is read through the other.
C20_GetPropertyMatchesAdd ==
    /\ [](GetIsExact(properties) /\ AddThenGetSharesStorage(properties))
    /\ [][GetIsStable]_vars

\* a row has just been written in a kind that has two properties, of
\* different element types, the written one not in the first slot
C20_Witness ==
    /\ call = "index_mut"
    /\ \E x \in WrittenRows(properties) :
          /\ x[2] = 1
          /\ properties[x[1]].parrays_[0].type
                # properties[x[1]].parrays_[1].type

\* the cells of the properties p: kind, slot and row
Cells(p) ==
    UNION {{<<kind, s, h>> : s \in PropertyContainer_slots(p[kind]),
                             h \in 0..(p[kind].size_ - 1)} : kind \in Kinds}

CellValue(p, x) == Properties_index(p, x[1], x[2], x[3])

CellDefault(p, x) == p[x[1]].parrays_[x[2]].default

\* x is a cell of the properties p
IsCell(p, x) ==
    x[2] \in PropertyContainer_slots(p[x[1]]) /\ x[3] < p[x[1]].size_

\* from properties p to properties q every cell of p keeps its value, and
\* every cell that is new in q reads as the default of its property
CellsKeptNewDefault(p, q) ==
    /\ \A x \in Cells(p) : IsCell(q, x)
    /\ \A x \in Cells(q) :
          CellValue(q, x) = IF IsCell(p, x) THEN CellValue(p, x)
                            ELSE CellDefault(q, x)

\* a property added now has one default row per entity of its kind; the
\* rows of later vertices, halfedges, edges and faces are default rows; and
\* a write changes the one cell it is made to
DefaultUntilWritten ==
    /\ \A kind \in Kinds, name \in PropNames, type \in PropTypes,
          default \in PropValues :
          CellsKeptNewDefault(properties,
              add_property(properties, kind, name, type, default).properties)
    /\ CellsKeptNewDefault(properties, add_vertex(M).properties)
    /\ \A nb \in 0..MaxNb :
          CellsKeptNewDefault(properties, add_vertices(M, nb).properties)
    /\ \A vertices \in FaceArgs(topology) :
          CellsKeptNewDefault(properties, add_face(M, vertices).properties)
    /\ \A x \in Cells(properties), value \in PropValues :
          LET q == Properties_index_mut(properties, x[1], x[2], x[3], value)
          IN  /\ \A y \in Cells(q) : IsCell(properties, y)
              /\ \A y \in Cells(properties) :
                    CellValue(q, y) = IF y = x THEN value
                                      ELSE CellValue(properties, y)

\* one step: only a write changes a cell there was, and one cell at most
CellsStep ==
    /\ \A x \in Cells(properties) : IsCell(properties', x)
    /\ \A x \in Cells(properties') :
          ~IsCell(properties, x) =>
              CellValue(properties', x) = CellDefault(properties', x)
    /\ LET changed == {x \in Cells(properties) :
                         CellValue(properties', x) # CellValue(properties, x)}
       IN  IF call' = "index_mut" THEN Cardinality(changed) <= 1
           ELSE changed = {}

\* C21: every row of a property reads as the default until it is written: a
\* property added to a kind of k entities has k default rows, every entity
\* created later gets a default row, and a write to row r of property P
\* changes that cell only, also across later entity creation.
C21_RowsDefaultUntilWritten ==
    /\ []DefaultUntilWritten
    /\ [][CellsStep]_vars

\* a vertex has just been added to a mesh in which a row of a vertex
\* property had been written
C21_Witness ==
    /\ call = "add_vertex"
    /\ \E x \in WrittenRows(properties) : x[1] = "vprop_" /\ x[3] < ret

\* C22: property names are scoped per entity kind: adding name X to one kind
\* leaves add and get of X in each other kind as they were, so X can still
\* be added there if it could before, and get there does not see it.
C22_NamesScopedPerKind ==
    \A kind \in Kinds, name \in PropNames, type \in PropTypes :
        LET a == add_property(properties, kind, name, type, PropDefault(type))
        IN  \A other \in Kinds \ {kind}, type2 \in PropTypes :
              /\ a.properties[other] = properties[other]
              /\ get_property(a.properties, other, name, type2)
                    = get_property(properties, other, name, type2)
              /\ add_property(a.properties, other, name, type2,
                              PropDefault(type2)).ret
                    = add_property(properties, other, name, type2,
                                   PropDefault(type2)).ret
              /\ name \notin PropertyNames(properties[other]) =>
                    /\ get_property(a.properties, other, name, type2) = None
                    /\ add_property(a.properties, other, name, type2,
                                    PropDefault(type2)).ret # None

\* one name has just been added to a second kind
C22_Witness ==
    /\ call = "add_property" /\ ret # None
    /\ \E kind, other \in Kinds :
          /\ kind # other
          /\ PropertyNames(properties[kind]) \cap
                PropertyNames(properties[other]) # {}

\* C23 (as claimed): for every vertex v, faces_around(v) terminates, never
\* unwraps the face of a halfedge without one, and yields every face
\* incident to v exactly once (nothing for an isolated vertex).
C23_FacesAroundVertexIsComplete ==
    \A v \in Vertices(topology) :
        LET r == faces_around_vertex(topology, v)
        IN  /\ r.status = "done"
            /\ IsInjective(r.items)
            /\ Range(r.items) = FacesAt(topology, v)

\* C24 (as claimed): for every vertex v, halfedges_around(v) yields nothing
\* if v is isolated and otherwise ends after yielding every halfedge that
\* leaves v exactly once, each the cw_rotated_halfedge of the one before;
\* vertices_around(v) yields the to-vertices of the same halfedges in the
\* same order.
C24_HalfedgesAroundVertexOneLoop ==
    \A v \in Vertices(topology) :
        LET r == halfedges_around_vertex(topology, v)
            rv == vertices_around_vertex(topology, v)
        IN  /\ r.status = "done" /\ rv.status = "done"
            /\ IsInjective(r.items)
            /\ Range(r.items) = OutgoingAt(topology, v)
            /\ \A k \in DOMAIN r.items :
                  /\ from_vertex(topology, r.items[k]) = v
                  /\ k > 1 => r.items[k]
                               = cw_rotated_halfedge(topology, r.items[k - 1])
            /\ Len(rv.items) = Len(r.items)
            /\ \A k \in DOMAIN r.items :
                  rv.items[k] = to_vertex(topology, r.items[k])

\* C25: a face created from n vertices is circulated in exactly n steps, by
\* halfedges_around(f) and by vertices_around(f), in the mesh the call leaves
\* and in every mesh reached later: the halfedges are n distinct halfedges
\* whose face is f, the first is face_halfedge(f), and each is the
\* next_halfedge of the one before.
FaceCirculation(t, f) ==
    [halfedges |-> halfedges_around_face(t, f),
     vertices |-> vertices_around_face(t, f)]

NewFaceCirculation ==
    \A vertices \in Args :
        LET r == add_face(M, vertices)
            n == Len(vertices)
            c == FaceCirculation(r.topology, r.ret)
        IN  Accepted(r) =>
                /\ Len(c.halfedges) = n /\ Len(c.vertices) = n
                /\ IsInjective(c.halfedges)
                /\ c.halfedges[1] = face_halfedge(r.topology, r.ret)
                /\ \A k \in 1..n :
                      /\ face(r.topology, c.halfedges[k]) = r.ret
                      /\ k > 1 => c.halfedges[k]
                             = next_halfedge(r.topology, c.halfedges[k - 1])

FaceCirculationStep ==
    \A f \in Faces(topology) :
        /\ f \in Faces(topology')
        /\ FaceCirculation(topology', f) = FaceCirculation(topology, f)

C25_FaceCirculatorsYieldN ==
    /\ []NewFaceCirculation
    /\ [][FaceCirculationStep]_vars

\* a triangle has just been added next to a quadrilateral, in a mesh where
\* some argument is still accepted
C25_Witness ==
    /\ call = "add_face" /\ ret \in Faces(topology) /\ ret >= 1
    /\ Len(halfedges_around_face(topology, 0)) = 4
    /\ Len(halfedges_around_face(topology, ret)) = 3
    /\ \E vertices \in Args : Accepted(add_face(M, vertices))

\* C26: vertices(), faces(), edges() and halfedges() yield the indices 0, 1,
\* ..., n_kind - 1 in ascending order, each once (nothing for an empty kind);
\* after the first None every further next returns None; a fresh iterator
\* starts at index 0.
n_kind(t, kind) ==
    CASE kind = "vertices" -> n_vertices(t)
      [] kind = "faces" -> n_faces(t)
      [] kind = "edges" -> n_edges(t)
      [] kind = "halfedges" -> n_halfedges(t)

C26_EntityIteratorsAscendOnce ==
    \A kind \in IteratorKinds :
        LET n == n_kind(topology, kind)
            calls == Iterator_calls(topology, kind, Iterator_new,
                                    n + ExtraCalls)
        IN  /\ \A k \in 1..n : calls[k] = k - 1
            /\ \A k \in (n + 1)..(n + ExtraCalls) : calls[k] = None

\* a mesh in which the four kinds have four different sizes, none empty
C26_Witness ==
    /\ call = "add_face" /\ n_faces(topology) >= 2
    /\ Cardinality({n_kind(topology, kind) : kind \in IteratorKinds}) = 4

\* C30: for every vertex v with halfedge(v) = Some(h), h is an existing
\* halfedge that leaves v: from_vertex(h) = v and to_vertex(opposite(h)) = v;
\* and halfedge(v) is none exactly when no halfedge starts or ends at v.
C30_VertexHalfedgeLeavesVertex ==
    \A v \in Vertices(topology) :
        LET h == halfedge(topology, v)
        IN  /\ h # None =>
                  /\ h \in Halfedges(topology)
                  /\ from_vertex(topology, h) = v
                  /\ to_vertex(topology, opposite_halfedge(h)) = v
            /\ h = None <=>
                  \A g \in Halfedges(topology) :
                      /\ to_vertex(topology, g) # v
                      /\ from_vertex(topology, g) # v
                      /\ to_vertex(topology, opposite_halfedge(g)) # v

\* a face has just been added; one vertex is still isolated and another has
\* had its outgoing halfedge moved off the first halfedge that left it
C30_Witness ==
    /\ call = "add_face" /\ ret \in Faces(topology)
    /\ \E v \in Vertices(topology) : halfedge(topology, v) = None
    /\ \E v \in Vertices(topology) :
          /\ halfedge(topology, v) # None
          /\ \E g \in OutgoingAt(topology, v) : g < halfedge(topology, v)

\* C27: handles of one kind are totally ordered by their index, the invalid
\* handle strictly below every valid one: for valid a, b, a < b iff
\* idx(a) < idx(b) and a == b iff idx(a) = idx(b); invalid == invalid; cmp
\* and partial_cmp agree; the order is antisymmetric and transitive.
Handles == {BaseHandle_invalid} \cup {BaseHandle_new(i) : i \in 0..MaxIdx}

\* a < b and a <= b as PartialOrd derives them from partial_cmp
BaseHandle_lt(a, b) == BaseHandle_partial_cmp(a, b) = Option_Some(Less)

BaseHandle_le(a, b) ==
    BaseHandle_partial_cmp(a, b) \in {Option_Some(Less), Option_Some(Equal)}

C27_HandlesTotallyOrdered ==
    LET a == handles[1]
        b == handles[2]
        va == BaseHandle_is_valid(a)
        vb == BaseHandle_is_valid(b)
    IN  /\ BaseHandle_partial_cmp(a, b) = Option_Some(BaseHandle_cmp(a, b))
        /\ BaseHandle_cmp(a, b) = Equal <=> BaseHandle_eq(a, b)
        /\ (va /\ vb) =>
              /\ BaseHandle_lt(a, b)
                    <=> BaseHandle_idx(a)[1] < BaseHandle_idx(b)[1]
              /\ BaseHandle_eq(a, b)
                    <=> BaseHandle_idx(a)[1] = BaseHandle_idx(b)[1]
        /\ (~va /\ vb) => BaseHandle_lt(a, b) /\ ~BaseHandle_eq(a, b)
        /\ (~va /\ ~vb) => BaseHandle_eq(a, b)
        /\ BaseHandle_cmp(a, b) = 0 - BaseHandle_cmp(b, a)
        /\ (BaseHandle_le(a, b) /\ BaseHandle_le(b, a)) => BaseHandle_eq(a, b)
        /\ \A c \in Handles :
              (BaseHandle_le(a, b) /\ BaseHandle_le(b, c))
                  => BaseHandle_le(a, c)
        /\ call = "cmp" =>
              (ret = Less <=> BaseHandle_lt(a, b))

\* cmp has just put an invalid handle below a valid one
C27_Witness ==
    /\ call = "cmp" /\ ret = Less
    /\ ~BaseHandle_is_valid(handles[1])
    /\ BaseHandle_is_valid(handles[2])

\* C28: new(i) is valid and its idx() gives i back; invalid() is not valid
\* and its idx() carries no index; reset() turns any handle, valid or not,
\* into one equal to invalid(); is_valid() is true exactly when idx()
\* carries an index.
HandleContract ==
    /\ \A i \in 0..MaxIdx :
          /\ BaseHandle_is_valid(BaseHandle_new(i))
          /\ BaseHandle_idx(BaseHandle_new(i)) = Option_Some(i)
    /\ ~BaseHandle_is_valid(BaseHandle_invalid)
    /\ BaseHandle_idx(BaseHandle_invalid) = Option_None
    /\ \A k \in 1..2 :
          /\ BaseHandle_eq(BaseHandle_reset(handles[k]), BaseHandle_invalid)
          /\ BaseHandle_is_valid(handles[k])
                <=> BaseHandle_idx(handles[k]) # Option_None

\* one step: a reset leaves the client with an invalid handle in the place
\* of one of its two, whatever that one was; new leaves a valid one
HandleStep ==
    /\ call' = "reset" =>
          \E k \in 1..2 :
              /\ BaseHandle_eq(handles'[k], BaseHandle_invalid)
              /\ ~BaseHandle_is_valid(handles'[k])
              /\ handles'[3 - k] = handles[3 - k]
    /\ call' = "new_handle" =>
          \E k \in 1..2 :
              /\ handles'[k] = ret'
              /\ BaseHandle_is_valid(handles'[k])
              /\ handles'[3 - k] = handles[3 - k]

C28_HandleOperations ==
    /\ []HandleContract
    /\ [][HandleStep]_vars

\* a reset has just been made; the client holds an invalid handle and a
\* valid one
C28_Witness ==
    /\ call = "reset"
    /\ ~BaseHandle_is_valid(handles[1])
    /\ BaseHandle_is_valid(handles[2])
    /\ BaseHandle_idx(handles[2]) = Option_Some(MaxIdx)

\* C29: vertex_reserve(n), face_reserve(n) and edge_reserve(n) change no
\* entity count, no connectivity and no property value; afterwards the
\* matching capacity is >= n (edge_reserve reserves 2n halfedge rows, and
\* edge_capacity is the halfedge capacity / 2); no operation ever decreases
\* a capacity.
ReserveContract ==
    \A size \in 0..MaxReserve :
        /\ vertex_reserve(M, size) = M
        /\ face_reserve(M, size) = M
        /\ edge_reserve(M, size) = M
        /\ vertex_capacity(vertex_reserve_capacity(capacity, size)) >= size
        /\ face_capacity(face_reserve_capacity(capacity, size)) >= size
        /\ edge_capacity(edge_reserve_capacity(capacity, size)) >= size
        /\ edge_reserve_capacity(capacity, size).hconn_ >= 2 * size

CapacityStep ==
    /\ vertex_capacity(capacity') >= vertex_capacity(capacity)
    /\ face_capacity(capacity') >= face_capacity(capacity)
    /\ edge_capacity(capacity') >= edge_capacity(capacity)
    /\ capacity'.hconn_ >= capacity.hconn_
    /\ call' \in {"vertex_reserve", "face_reserve", "edge_reserve"} =>
          /\ topology' = topology
          /\ properties' = properties

C29_ReserveFrameAndCapacity ==
    /\ []ReserveContract
    /\ [][CapacityStep]_vars

\* edge_reserve has just been called on a mesh with a face and a vertex
\* property, and has left room for more edges than there are
C29_Witness ==
    /\ call = "edge_reserve"
    /\ n_faces(topology) >= 1
    /\ PropertyContainer_slots(properties.vprop_) # {}
    /\ edge_capacity(capacity) > n_edges(topology)
    /\ vertex_capacity(capacity) > n_vertices(topology)

\* C31 (as claimed): an add_face(vertices) call in which two cyclically
\* consecutive entries are the same vertex is never accepted, and when it
\* trips the assert of new_edge it has added no edge, halfedge, face or
\* property row, whatever the position of the repeated pair.
RECURSIVE Tuples(_, _)
Tuples(S, k) ==
    IF k = 0 THEN {<<>>}
    ELSE {Append(q, x) : q \in Tuples(S, k - 1), x \in S}

\* Vec<Vertex> arguments with a cyclically consecutive repeated vertex
RepeatArgs(t) ==
    UNION {{q \in Tuples(Vertices(t) \cap 0..(MaxV - 1), k) :
               \E i \in 0..(k - 1) : At(q, i) = At(q, (i + 1) % k)} :
           k \in 3..MaxN}

C31_SelfLoopAssertBeforeMutation ==
    \A vertices \in RepeatArgs(topology) :
        LET r == add_face(M, vertices)
        IN  r.ret # None =>
                /\ r.ret = Panic
                /\ r.topology = topology
                /\ r.properties = properties

\* C32: existing faces are never disturbed: no add_vertex and no add_face
\* call, accepted or rejected, changes to, face, next or prev of a halfedge
\* that had a face before the call, the face_halfedge of an existing face,
\* or to of any existing halfedge; so vertices_around(f) of an earlier face
\* stays the same sequence.
ExistingFacesStep ==
    /\ \A h \in Halfedges(topology) :
          /\ h \in Halfedges(topology')
          /\ to_vertex(topology', h) = to_vertex(topology, h)
          /\ face(topology, h) # None =>
                /\ face(topology', h) = face(topology, h)
                /\ next_halfedge(topology', h) = next_halfedge(topology, h)
                /\ prev_halfedge(topology', h) = prev_halfedge(topology, h)
    /\ \A f \in Faces(topology) :
          /\ f \in Faces(topology')
          /\ face_halfedge(topology', f) = face_halfedge(topology, f)
          /\ vertices_around_face(topology', f)
                = vertices_around_face(topology, f)

C32_ExistingFacesUndisturbed == [][ExistingFacesStep]_vars

\* a face has just been added across an edge of an earlier face, by a call
\* that also re-linked boundary halfedges
C32_Witness ==
    /\ call = "add_face" /\ ret \in Faces(topology) /\ ret >= 2
    /\ \E h \in Halfedges(topology) :
          /\ face(topology, h) = ret
          /\ face(topology, opposite_halfedge(h)) \notin {None, ret}
    /\ \E h \in Halfedges(topology) :
          /\ face(topology, h) = ret
          /\ face(topology, opposite_halfedge(h)) = None

\* C33: an accepted add_face(vertices) returning f sets face = f on exactly
\* n halfedges, one running from vertices[i] to vertices[i+1 mod n] for each
\* i, and on no other halfedge; each of their opposites keeps the face it
\* had (none on a new edge), so an edge shared with an earlier face has that
\* face on one side and f on the other; no halfedge has its face
\* overwritten.
HalfedgesOfFace(t, f) == {h \in Halfedges(t) : face(t, h) = f}

FaceSetOnCornersOnly(t, r, vertices) ==
    LET n == Len(vertices)
        t1 == r.topology
        f == r.ret
    IN  /\ Cardinality(HalfedgesOfFace(t1, f)) = n
        /\ \A i \in 0..(n - 1) :
              Cardinality(HalfedgesOfFace(t1, f) \cap
                          HalfedgesFromTo(t1, At(vertices, i),
                                          At(vertices, (i + 1) % n))) = 1
        /\ \A h \in Halfedges(t1) \ HalfedgesOfFace(t1, f) :
              face(t1, h) = IF h \in Halfedges(t) THEN face(t, h) ELSE None
        /\ \A h \in HalfedgesOfFace(t1, f) :
              /\ h \in Halfedges(t) => face(t, h) = None
              /\ face(t1, opposite_halfedge(h)) # f

C33_FaceSetOnCornersOnly ==
    \A vertices \in Args :
        LET r == add_face(M, vertices)
        IN  Accepted(r) => FaceSetOnCornersOnly(topology, r, vertices)

\* a face has just been added, and an argument is accepted here that takes
\* over a boundary halfedge of an earlier face and gets a new edge as well
C33_Witness ==
    /\ call = "add_face" /\ ret \in Faces(topology)
    /\ \E vertices \in Args :
          LET r == add_face(M, vertices)
          IN  /\ Accepted(r)
              /\ n_edges(r.topology) > n_edges(topology)
              /\ \E h \in HalfedgesOfFace(r.topology, r.ret) :
                    /\ h \in Halfedges(topology)
                    /\ face(topology, opposite_halfedge(h)) # None

\* C34 (as claimed): in every mesh reached by add_vertex and add_face calls
\* on n >= 3 pairwise distinct vertices there is at most one halfedge for
\* each ordered pair of vertices: add_face never allocates a second edge
\* between two vertices that are already connected.
OneHalfedgePerVertexPair(t) ==
    \A s, e \in Vertices(t) : Cardinality(HalfedgesFromTo(t, s, e)) <= 1

C34_OneHalfedgePerVertexPair ==
    /\ OneHalfedgePerVertexPair(topology)
    /\ \A vertices \in Args :
          OneHalfedgePerVertexPair(add_face(M, vertices).topology)

\* C35: boundary cycles stay closed: in every reachable mesh
\* face(next(h)) = face(h) for every halfedge h, so the next of a boundary
\* halfedge is a boundary halfedge, and the two asserts of the re-link
\* pre-pass of add_face (boundary_prev and boundary_next are boundary
\* halfedges) never fire.
NextKeepsFace(t) ==
    \A h \in Halfedges(t) :
        /\ next_halfedge(t, h) \in Halfedges(t)
        /\ face(t, next_halfedge(t, h)) = face(t, h)

C35_BoundaryCyclesStayClosed ==
    /\ NextKeepsFace(topology)
    /\ \A vertices \in Args :
          LET r == add_face(M, vertices)
          IN  /\ r.ret # Panic
              /\ NextKeepsFace(r.topology)
              /\ add_face_valid_from(topology, vertices, 0) = Len(vertices)
                    => add_face_relink(topology,
                           add_face_hvec(topology, vertices), 0,
                           <<>>).status # "panic"

\* a third face has just been added, and here the pre-pass queues re-links
\* for some argument, both asserts passing
C35_Witness ==
    /\ call = "add_face" /\ ret \in Faces(topology) /\ ret >= 2
    /\ \E vertices \in Args :
          /\ add_face_valid_from(topology, vertices, 0) = Len(vertices)
          /\ LET relink == add_face_relink(topology,
                              add_face_hvec(topology, vertices), 0, <<>>)
             IN  relink.status = "ok" /\ Len(relink.next_cache) >= 3

\* ------------------------------------------- the walks of add_face, counted
\* Each walk below steps from halfedge to halfedge and decides from the
\* halfedge alone whether to stop, so a walk still running after as many
\* passes as there are halfedges has met a halfedge twice and never stops.

\* the loop of find_halfedge: TRUE when it leaves within fuel passes
RECURSIVE find_halfedge_loop_ends(_, _, _, _, _)
find_halfedge_loop_ends(t, h, h_end, end, fuel) ==
    IF fuel = 0 THEN FALSE
    ELSE IF to_vertex(t, h) = end THEN TRUE
    ELSE LET h2 == cw_rotated_halfedge(t, h)
         IN  IF h2 = h_end THEN TRUE
             ELSE find_halfedge_loop_ends(t, h2, h_end, end, fuel - 1)

find_halfedge_ends(t, start, end) ==
    IF halfedge(t, start) = None THEN TRUE
    ELSE find_halfedge_loop_ends(t, halfedge(t, start), halfedge(t, start),
                                 end, n_halfedges(t))

\* the walk of the pre-pass: TRUE when it breaks within fuel passes
RECURSIVE add_face_boundary_prev_ends(_, _, _, _)
add_face_boundary_prev_ends(t, boundary_prev, inner_prev, fuel) ==
    IF fuel = 0 THEN FALSE
    ELSE LET bp == opposite_halfedge(next_halfedge(t, boundary_prev))
         IN  IF is_boundary_halfedge(t, bp) /\ bp # inner_prev THEN TRUE
             ELSE add_face_boundary_prev_ends(t, bp, inner_prev, fuel - 1)

\* the loop of adjust_outgoing_halfedge without its test "h == hh"
RECURSIVE adjust_outgoing_halfedge_loop_ends_no_hh(_, _, _, _)
adjust_outgoing_halfedge_loop_ends_no_hh(t, h, hh, fuel) ==
    IF fuel = 0 THEN FALSE
    ELSE IF is_boundary_halfedge(t, h) THEN TRUE
    ELSE adjust_outgoing_halfedge_loop_ends_no_hh(
            t, cw_rotated_halfedge(t, h), hh, fuel - 1)

\* the loop of adjust_outgoing_halfedge: TRUE when it leaves within fuel passes
RECURSIVE adjust_outgoing_halfedge_loop_ends(_, _, _, _)
adjust_outgoing_halfedge_loop_ends(t, h, hh, fuel) ==
    IF fuel = 0 THEN FALSE
    ELSE IF is_boundary_halfedge(t, h) THEN TRUE
    ELSE LET h2 == cw_rotated_halfedge(t, h)
         IN  IF h2 = hh THEN TRUE
             ELSE adjust_outgoing_halfedge_loop_ends(t, h2, hh, fuel - 1)

adjust_outgoing_halfedge_ends(t, v) ==
    IF halfedge(t, v) = None THEN TRUE
    ELSE adjust_outgoing_halfedge_loop_ends(t, halfedge(t, v), halfedge(t, v),
                                            n_halfedges(t))

\* add_face, first loop: every find_halfedge it calls returns
RECURSIVE add_face_valid_ends(_, _, _)
add_face_valid_ends(t, vertices, i) ==
    LET n == Len(vertices)
    IN  IF i = n THEN TRUE
        ELSE IF ~is_boundary_vertex(t, At(vertices, i)) THEN TRUE
        ELSE /\ find_halfedge_ends(t, At(vertices, i),
                                   At(vertices, (i + 1) % n))
             /\ LET h == find_halfedge(t, At(vertices, i),
                                       At(vertices, (i + 1) % n))
                IN  IF h # None /\ ~is_boundary_halfedge(t, h) THEN TRUE
                    ELSE add_face_valid_ends(t, vertices, i + 1)

\* add_face, second loop: every boundary walk it starts breaks
RECURSIVE add_face_relink_ends(_, _, _)
add_face_relink_ends(t, hvec, i) ==
    LET n == PropertyVec_len(hvec)
        ii == (i + 1) % n
    IN  IF i = n THEN TRUE
        ELSE IF hvec[i] # None /\ hvec[ii] # None
                /\ next_halfedge(t, hvec[i]) # hvec[ii]
        THEN LET inner_prev == hvec[i]
                 inner_next == hvec[ii]
                 outer_prev == opposite_halfedge(inner_next)
             IN  /\ add_face_boundary_prev_ends(t, outer_prev, inner_prev,
                                                n_halfedges(t))
                 /\ LET boundary_prev ==
                            add_face_boundary_prev(t, outer_prev, inner_prev)
                        boundary_next == next_halfedge(t, boundary_prev)
                    IN  IF ~is_boundary_halfedge(t, boundary_prev)
                           \/ ~is_boundary_halfedge(t, boundary_next)
                        THEN TRUE
                        ELSE IF boundary_next = inner_next THEN TRUE
                        ELSE add_face_relink_ends(t, hvec, i + 1)
        ELSE add_face_relink_ends(t, hvec, i + 1)

\* add_face, last loop: every adjust_outgoing_halfedge it calls returns
RECURSIVE add_face_adjust_ends(_, _, _, _)
add_face_adjust_ends(t, vertices, needs_adjust, i) ==
    IF i = Len(vertices) THEN TRUE
    ELSE IF needs_adjust[i]
    THEN /\ adjust_outgoing_halfedge_ends(t, At(vertices, i))
         /\ add_face_adjust_ends(
                adjust_outgoing_halfedge(t, At(vertices, i)),
                vertices, needs_adjust, i + 1)
    ELSE add_face_adjust_ends(t, vertices, needs_adjust, i + 1)

\* the mesh and the flags the last loop of add_face starts from
add_face_before_adjust(m, vertices, hvec, next_cache) ==
    LET n == Len(vertices)
        new_hvec == [i \in 0..(n - 1) |-> hvec[i] = None]
        e == add_face_create_edges(vertices, new_hvec,
                [i |-> 0, panic |-> FALSE, topology |-> m.topology,
                 properties |-> m.properties, hvec |-> hvec])
        t1 == add_face_new_face(e.topology, e.hvec)
        s == add_face_setup(vertices, e.hvec, new_hvec, n_faces(t1) - 1, 0,
                [topology |-> t1, next_cache |-> next_cache,
                 needs_adjust |-> [i \in 0..(n - 1) |-> FALSE]])
    IN  [panic |-> e.panic,
         topology |-> IF e.panic THEN e.topology
                      ELSE add_face_process_cache(s.topology, s.next_cache),
         next_cache |-> IF e.panic THEN next_cache ELSE s.next_cache,
         needs_adjust |-> IF e.panic THEN [i \in 0..(n - 1) |-> FALSE]
                          ELSE s.needs_adjust]

\* Mesh::add_face returns: each of its walks ends
add_face_ends(m, vertices) ==
    LET n == Len(vertices)
        t == m.topology
    IN  /\ add_face_valid_ends(t, vertices, 0)
        /\ \/ add_face_valid_from(t, vertices, 0) < n
           \/ LET hvec == add_face_hvec(t, vertices)
              IN  /\ add_face_relink_ends(t, hvec, 0)
                  /\ LET relink == add_face_relink(t, hvec, 0, <<>>)
                         b == add_face_before_adjust(m, vertices, hvec,
                                                     relink.next_cache)
                     IN  \/ relink.status # "ok"
                         \/ b.panic
                         \/ add_face_adjust_ends(b.topology, vertices,
                                                 b.needs_adjust, 0)

\* C36: every call of add_face on a reachable mesh terminates: the cw walk of
\* find_halfedge comes back to its start, the boundary walk of the pre-pass
\* reaches a boundary halfedge other than inner_prev, and
\* adjust_outgoing_halfedge finds a boundary halfedge or completes its
\* revolution.
C36_AddFaceTerminates ==
    \A vertices \in Args \cup RepeatArgs(topology) :
        add_face_ends(M, vertices)

\* a face has just been added, and here some accepted call walks: its
\* find_halfedge and its pre-pass take more than one pass, and it adjusts a
\* vertex whose halfedges all have a face by then
C36_Witness ==
    /\ call = "add_face" /\ ret \in Faces(topology)
    /\ \E vertices \in Args :
          LET n == Len(vertices)
              hvec == add_face_hvec(topology, vertices)
              relink == add_face_relink(topology, hvec, 0, <<>>)
              b == add_face_before_adjust(M, vertices, hvec,
                                          relink.next_cache)
          IN  /\ Accepted(add_face(M, vertices))
              /\ \E i \in 0..(n - 1) :
                    /\ halfedge(topology, At(vertices, i)) # None
                    /\ ~find_halfedge_loop_ends(topology,
                          halfedge(topology, At(vertices, i)),
                          halfedge(topology, At(vertices, i)),
                          At(vertices, (i + 1) % n), 1)
              /\ \E i \in 0..(n - 1) :
                    /\ hvec[i] # None /\ hvec[(i + 1) % n] # None
                    /\ next_halfedge(topology, hvec[i]) # hvec[(i + 1) % n]
                    /\ ~add_face_boundary_prev_ends(topology,
                          opposite_halfedge(hvec[(i + 1) % n]), hvec[i], 1)
              /\ \E i \in 0..(n - 1) :
                    /\ b.needs_adjust[i]
                    /\ ~is_boundary_vertex(b.topology, At(vertices, i))

\* the mesh the commit loop of add_face starts from, and its queue
add_face_before_commit(m, vertices, hvec, next_cache) ==
    LET n == Len(vertices)
        new_hvec == [i \in 0..(n - 1) |-> hvec[i] = None]
        e == add_face_create_edges(vertices, new_hvec,
                [i |-> 0, panic |-> FALSE, topology |-> m.topology,
                 properties |-> m.properties, hvec |-> hvec])
        t1 == add_face_new_face(e.topology, e.hvec)
    IN  add_face_setup(vertices, e.hvec, new_hvec, n_faces(t1) - 1, 0,
            [topology |-> t1, next_cache |-> next_cache,
             needs_adjust |-> [i \in 0..(n - 1) |-> FALSE]])

\* no halfedge is the first component of two pairs of q, none the second
ConflictFree(q) ==
    \A a, b \in 1..Len(q) :
        a # b => q[a][1] # q[b][1] /\ q[a][2] # q[b][2]

RECURSIVE Reverse(_)
Reverse(q) == IF q = <<>> THEN <<>> ELSE Append(Reverse(Tail(q)), Head(q))

\* C37: in every call of add_face on n >= 3 pairwise distinct
\* vertices that reaches the commit loop, the queued re-links are free of
\* conflicts: no halfedge is the first component of two queued pairs and
\* none is the second component of two, so that next and prev after the
\* commit loop are the same when the queue is applied back to front.
C37_QueuedRelinksConflictFree ==
    \A vertices \in Args :
        Accepted(add_face(M, vertices)) =>
            LET hvec == add_face_hvec(topology, vertices)
                relink == add_face_relink(topology, hvec, 0, <<>>)
                s == add_face_before_commit(M, vertices, hvec,
                                            relink.next_cache)
                t1 == add_face_process_cache(s.topology, s.next_cache)
                t2 == add_face_process_cache(s.topology,
                                             Reverse(s.next_cache))
            IN  /\ ConflictFree(s.next_cache)
                /\ \A h \in Halfedges(t1) :
                      /\ next_halfedge(t2, h) = next_halfedge(t1, h)
                      /\ prev_halfedge(t2, h) = prev_halfedge(t1, h)

\* a face has just been added, and here the queue of some accepted call holds
\* pairs of the pre-pass and pairs of the setup loop, among them those of a
\* corner with two new halfedges at a vertex that has a halfedge already
C37_Witness ==
    /\ call = "add_face" /\ ret \in Faces(topology)
    /\ \E vertices \in Args :
          LET n == Len(vertices)
              hvec == add_face_hvec(topology, vertices)
              relink == add_face_relink(topology, hvec, 0, <<>>)
              s == add_face_before_commit(M, vertices, hvec,
                                          relink.next_cache)
          IN  /\ Accepted(add_face(M, vertices))
              /\ Len(relink.next_cache) >= 3
              /\ Len(s.next_cache) > Len(relink.next_cache)
    /\ \E vertices \in Args :
          LET n == Len(vertices)
              hvec == add_face_hvec(topology, vertices)
          IN  /\ Accepted(add_face(M, vertices))
              /\ \E i \in 0..(n - 1) :
                    /\ hvec[i] = None /\ hvec[(i + 1) % n] = None
                    /\ halfedge(topology, At(vertices, (i + 1) % n)) # None

====
